---- MODULE Spec2Model ----
(***************************************************************************)
(* A model of aframe-troika-text (dist/aframe-troika-text.js).              *)
(*                                                                         *)
(* Spec      the Text entities of the main thread (property setters,       *)
(*           Text.sync, getTextRenderInfo and its response handler), the   *)
(*           message channels to and from the worker, and the font         *)
(*           processor of the worker (process, getSdfAtlas, loadFont,      *)
(*           doLoadFont with its XMLHttpRequest).  Every action is one     *)
(*           JavaScript task: a call made by the application, a message    *)
(*           handler, or an XMLHttpRequest event handler.                  *)
(* SpecTex   the atlas texture of getTextRenderInfo's response handler,    *)
(*           fed with arbitrary glyph bitmaps.                             *)
(* SpecBidi  bidi.getEmbeddingLevels and bidi.getReorderSegments applied   *)
(*           to bounded strings.                                           *)
(* SpecLayout  the layout of process() and measure() once the font is      *)
(*           loaded: line wrapping, line widths, alignment, bidi flips,    *)
(*           caret positions and block bounds.                             *)
(* SpecComponent  the troika-text A-Frame component: init, update and      *)
(*           remove on a generic entity and on the a-troika-text primitive.*)
(***************************************************************************)
EXTENDS Integers, Sequences, FiniteSets, TLC

VARIABLES
  \* ---- main thread ----
  props,          \* Text: the private values of the SYNCABLE_PROPS
  needsSync,      \* Text._needsSync
  isSyncing,      \* Text._isSyncing
  queuedSyncs,    \* Text._queuedSyncs
  textRenderInfo, \* Text._textRenderInfo
  atlases,        \* getTextRenderInfo: atlases[atlasKey].sdfTexture.image
  openRequests,   \* requests posted to the worker and not yet answered
  messageId,      \* _messageId
  toWorker,       \* messages posted to the worker, in order
  fromWorker,     \* messages posted by the worker, in order
  \* ---- worker ----
  fonts,          \* createFontProcessor: fonts[url]
  fontAtlases,    \* createFontProcessor: fontAtlases[atlasKey]
  xhr,            \* doLoadFont: the XMLHttpRequest in flight of each load
  \* ---- history ----
  writes,         \* number of property writes made
  syncCalls,      \* number of callbacks handed to Text.sync
  syncCbCount,    \* invocations of each callback handed to Text.sync
  events,         \* the events each Text has dispatched, in order
  cbCount,        \* invocations of the callback of each process() call
  cbSync,         \* the process() calls whose callback ran inside the call
  cbFont,         \* the font object loadFont handed to each waiting call
  fetchLog,       \* per loadFont request: the urls fetched, in order
  parseLog,       \* per loadFont request: the urls handed to fontParser
  parseSerial,    \* number of font objects fontParser has returned
  failLog,        \* per loadFont request: the urls whose load failed
  calls,          \* the args of each process() call the worker has made
  \* ---- atlas texture on its own (SpecTex) ----
  texSize,        \* the sdfGlyphSize of the atlas
  texImg,         \* atlas.sdfTexture.image
  texCount,       \* number of glyph bitmaps inserted
  texWritten,     \* every byte written: << atlas index, offset, value >>
  \* ---- bidi (SpecBidi) ----
  bidiString,     \* the input string (code points)
  bidiDirection,  \* the baseDirection argument
  bidiResult,     \* the result of getEmbeddingLevels
  bidiSegments,   \* the result of getReorderSegments
  bidiIndices,    \* the result of getReorderedIndices
  bidiPc,         \* "input" -> "levels" -> "segments" -> "indices"
  \* ---- text layout of process and measure (SpecLayout) ----
  layout,         \* the arguments of a process()/measure() call and its results
  \* ---- the troika-text component (SpecComponent) ----
  component,      \* the component, its host entity and the entities it made
  \* ---- worker modules: callWorker and the worker bootstrap (SpecWorker) ----
  rpc,            \* _messageId, openRequests, the worker's modules, messages
  \* ---- signed distance field sampling (SpecSDF) ----
  sdf             \* the segments added to the index, the query and its result

sysVars == << props, needsSync, isSyncing, queuedSyncs, textRenderInfo, atlases,
              openRequests, messageId, toWorker, fromWorker, fonts, fontAtlases,
              xhr, writes, syncCalls, syncCbCount, events, cbCount, cbSync, cbFont,
              fetchLog, parseLog, parseSerial, failLog, calls >>
texVars == << texSize, texImg, texCount, texWritten >>
bidiVars == << bidiString, bidiDirection, bidiResult, bidiSegments, bidiIndices,
              bidiPc >>
vars == << sysVars, texVars, bidiVars, layout, component, rpc, sdf >>

NULL == "null"

(***************************************************************************)
(* Bounds                                                                  *)
(***************************************************************************)
MaxMessages == 3       \* getTextRenderInfo requests issued in one behaviour
MaxWrites == 2         \* property writes made in one behaviour
MaxSyncCallbacks == 2  \* callbacks handed to Text.sync in one behaviour
MaxTexGlyphs == 9      \* glyph bitmaps copied into the texture of SpecTex
MaxLenAll == 2         \* length of the strings of SpecBidi over all characters
MaxLenCore == 4        \* ... over letters, digit, space, newline and brackets
MaxLenIsolate == 6     \* ... over letters, RLI and PDI
MaxLenFormat == 4      \* ... over a letter and the explicit formatting characters
MaxLenTail == 2        \* ... characters after embeddings nested to the maximum depth
MaxInits == 2          \* times the component is attached in SpecComponent
MaxUpdates == 2        \* changes of the component's data in SpecComponent
MaxLenWrap == 6        \* length of the texts of SpecLayout over a and space
MaxLenLines == 4       \* ... over a, space, newline and alef
MaxLenChars == 3       \* ... over every character of the layout
MaxLenWide == 4        \* ... over i, space and W
\* CONFIG.textureWidth and CONFIG.sdfGlyphSize are powers of two (2048 and 64
\* in the source); the model keeps them powers of two, scaled down.
TextureWidthLog2 == 2
SdfGlyphSizeLog2 == 1

\* The Text entities
Texts == {1, 2}
MessageIds == 1..MaxMessages

RECURSIVE Pow2(_)
Pow2(n) == IF n = 0 THEN 1 ELSE 2 * Pow2(n - 1)

Min(a, b) == IF a < b THEN a ELSE b
Max(a, b) == IF a > b THEN a ELSE b

(***************************************************************************)
(* CONFIG                                                                  *)
(***************************************************************************)
defaultFontURL == "default.woff"
textureWidth == Pow2(TextureWidthLog2)
sdfGlyphSize == Pow2(SdfGlyphSizeLog2)

\* The values the application gives the syncable properties.  A text is the
\* sequence of glyph indices the font's forEachGlyph yields for it; glyph 0
\* is a whitespace glyph.
OtherFontURL == "other.woff"
FontValues == {NULL, OtherFontURL}
FontURLs == {defaultFontURL, OtherFontURL}
SmallSdfGlyphSize == Pow2(SdfGlyphSizeLog2 - 1)
SdfGlyphSizeValues == {0, SmallSdfGlyphSize}   \* 0 stands for null
SdfGlyphSizes == {sdfGlyphSize, SmallSdfGlyphSize}
TextValues == {<<1, 0, 2>>, <<2, 3, 2>>}
InitialProps == [text |-> <<>>, font |-> NULL, sdfGlyphSize |-> 0]
PropNames == {"text", "font", "sdfGlyphSize"}
PropValues(p) == CASE p = "text" -> TextValues
                   [] p = "font" -> FontValues
                   [] p = "sdfGlyphSize" -> SdfGlyphSizeValues

AtlasKeys == FontURLs \X SdfGlyphSizes
AtlasKey(fontUrl, size) == << fontUrl, size >>

NoFont == [url |-> "", serial |-> 0]
NoArgs == [text |-> <<>>, font |-> "", sdfGlyphSize |-> 0]
NoResult == [glyphAtlasIndices |-> <<>>, newGlyphSDFs |-> <<>>]
NoInfo == [messageId |-> 0, parameters |-> NoArgs, glyphAtlasIndices |-> <<>>]
NoRequest == [text |-> 0, args |-> NoArgs, callback |-> <<>>]
NoAtlas == [fontObj |-> NoFont, glyphs |-> <<>>, glyphCount |-> 0]
NoTexture == [data |-> <<>>, height |-> 0, width |-> 0]

(***************************************************************************)
(* The atlas texture: getTextRenderInfo and its response handler           *)
(***************************************************************************)
Zeros(n) == [i \in 1..n |-> 0]

\* new THREE.DataTexture(new Uint8Array(sdfGlyphSize * textureWidth * 4),
\*                       textureWidth, sdfGlyphSize, ...)
\* data[k + 1] is the byte at offset k.
NewTexture(size) ==
  [data |-> Zeros(size * textureWidth * 4), width |-> textureWidth, height |-> size]

\* A slip: the array is doubled once and the old bytes are not copied over.
GrowTextureLosingData(img, needed) ==
  IF Len(img.data) < needed
    THEN [img EXCEPT !.data = Zeros(2 * Len(img.data)), !.height = 2 * img.height]
    ELSE img

\* while (texImg.data.length < (atlasIndex + 1) * sdfGlyphSize * sdfGlyphSize):
\* a Uint8Array of twice the length, the old bytes set at its start.
RECURSIVE GrowTexture(_, _)
GrowTexture(img, needed) ==
  IF Len(img.data) < needed
    THEN GrowTexture([img EXCEPT !.data = img.data \o Zeros(Len(img.data)),
                                 !.height = 2 * img.height], needed)
    ELSE img

\* baseStartIndex of the response handler
BaseStartIndex(img, size, atlasIndex) ==
  LET squareIndex == atlasIndex \div 4
      cols == img.width \div size
  IN  (squareIndex \div cols) * img.width * size * 4
        + (squareIndex % cols) * size * 4
        + (atlasIndex % 4)

\* rowStartIndex + x * 4: the offset the byte (x, y) of a bitmap is written to
WriteOffset(img, size, atlasIndex, x, y) ==
  BaseStartIndex(img, size, atlasIndex) + (y * img.width * 4) + x * 4

\* for (y ...) for (x ...) texImg.data[rowStartIndex + x * 4] = textureData[srcStartIndex + x]
\* from the k-th byte of the bitmap on (k = y * sdfGlyphSize + x).  A write
\* past the end of a Uint8Array is dropped.
RECURSIVE WriteBitmap(_, _, _, _, _)
WriteBitmap(img, size, glyph, data, k) ==
  IF k = size * size THEN data
  ELSE LET offset == WriteOffset(img, size, glyph.atlasIndex, k % size, k \div size)
       IN  WriteBitmap(img, size, glyph,
                       IF offset < Len(data)
                         THEN [data EXCEPT ![offset + 1] = glyph.textureData[k + 1]]
                         ELSE data,
                       k + 1)

\* The body of newGlyphSDFs.forEach: grow the texture, then copy the bitmap.
InsertGlyphSDF(img, size, glyph) ==
  LET grown == GrowTexture(img, (glyph.atlasIndex + 1) * size * size)
  IN  [grown EXCEPT !.data = WriteBitmap(grown, size, glyph, grown.data, 0)]

\* A slip: only the first of the new glyphs is copied.
CopyFirstNewGlyph(img, size, newGlyphSDFs) ==
  IF newGlyphSDFs = <<>> THEN img
  ELSE InsertGlyphSDF(img, size, Head(newGlyphSDFs))

RECURSIVE CopyNewGlyphs(_, _, _)
CopyNewGlyphs(img, size, newGlyphSDFs) ==
  IF newGlyphSDFs = <<>> THEN img
  ELSE CopyNewGlyphs(InsertGlyphSDF(img, size, Head(newGlyphSDFs)), size,
                     Tail(newGlyphSDFs))

(***************************************************************************)
(* The font processor (worker)                                             *)
(***************************************************************************)
\* !glyphObj.isWhitespace && !glyphObj.isEmpty
IsRenderable(glyphIndex) == glyphIndex # 0

\* sdfGenerator(glyphObj, sdfGlyphSize).textureData: size * size bytes that
\* depend on the glyph alone.
SdfTextureData(glyphIndex, size) ==
  [k \in 1..(size * size) |-> ((glyphIndex * 16 + k) % 255) + 1]

\* A slip: the new glyph is given the atlas index of the glyph before it.
AssignAtlasIndexReusingLast(atlas, glyphIndex) ==
  [atlas EXCEPT !.glyphs = (glyphIndex :> Max(atlas.glyphCount - 1, 0)) @@ atlas.glyphs,
                !.glyphCount = atlas.glyphCount + 1]

\* The atlas part of process(): for each renderable glyph, look its atlas
\* entry up or generate its SDF and give it the next atlas index.
AssignAtlasIndex(atlas, glyphIndex) ==
  [atlas EXCEPT !.glyphs = (glyphIndex :> atlas.glyphCount) @@ atlas.glyphs,
                !.glyphCount = atlas.glyphCount + 1]

RECURSIVE ProcessGlyphs(_, _, _, _, _, _)
ProcessGlyphs(text, i, size, atlas, indices, newGlyphs) ==
  IF i > Len(text)
    THEN [atlas |-> atlas,
          result |-> [glyphAtlasIndices |-> indices, newGlyphSDFs |-> newGlyphs]]
  ELSE IF ~IsRenderable(text[i])
    THEN ProcessGlyphs(text, i + 1, size, atlas, indices, newGlyphs)
  ELSE IF text[i] \in DOMAIN atlas.glyphs
    THEN ProcessGlyphs(text, i + 1, size, atlas,
                       Append(indices, atlas.glyphs[text[i]]), newGlyphs)
  ELSE LET next == AssignAtlasIndex(atlas, text[i])
       IN  ProcessGlyphs(text, i + 1, size, next,
                         Append(indices, next.glyphs[text[i]]),
                         Append(newGlyphs,
                                [textureData |-> SdfTextureData(text[i], size),
                                 atlasIndex |-> next.glyphs[text[i]]]))

\* The state of the worker, threaded through the calls of one task.
WorkerState ==
  [fonts |-> fonts, fontAtlases |-> fontAtlases, xhr |-> xhr,
   fromWorker |-> fromWorker, cbCount |-> cbCount, cbSync |-> cbSync,
   cbFont |-> cbFont, fetchLog |-> fetchLog, parseLog |-> parseLog,
   parseSerial |-> parseSerial, failLog |-> failLog, calls |-> calls]

\* process() from the callback of getSdfAtlas on: lay the text out against
\* the atlas and call back; processInWorker resolves its thenable with the
\* result, which callModule posts to the main thread.
ProcessWithAtlas(w, call, atlasKey, inCall) ==
  LET done == ProcessGlyphs(call.args.text, 1, call.args.sdfGlyphSize,
                            w.fontAtlases[atlasKey], <<>>, <<>>)
  IN  [w EXCEPT !.fontAtlases[atlasKey] = done.atlas,
                !.fromWorker = Append(@, [messageId |-> call.messageId,
                                          result |-> done.result]),
                !.cbCount[call.messageId] = @ + 1,
                !.cbSync = IF inCall THEN @ \cup {call.messageId} ELSE @]

\* The callback getSdfAtlas hands to loadFont:
\*   atlas = fontAtlases[atlasKey] || (fontAtlases[atlasKey] = {fontObj, ...})
AtlasCallback(w, call, fontObj, inCall) ==
  LET atlasKey == AtlasKey(call.args.font, call.args.sdfGlyphSize)
      w1 == IF w.fontAtlases[atlasKey] = NoAtlas
              THEN [w EXCEPT !.fontAtlases[atlasKey] = [NoAtlas EXCEPT !.fontObj = fontObj]]
              ELSE w
  IN  ProcessWithAtlas([w1 EXCEPT !.cbFont[call.messageId] = fontObj],
                       call, atlasKey, inCall)

\* callbacks.forEach(cb => cb(fontObj))
RECURSIVE RunCallbacks(_, _, _)
RunCallbacks(w, callbacks, fontObj) ==
  IF callbacks = <<>> THEN w
  ELSE RunCallbacks(AtlasCallback(w, Head(callbacks), fontObj, FALSE),
                    Tail(callbacks), fontObj)

\* doLoadFont(url, callback).  tryLoad opens and sends an XMLHttpRequest for
\* url; when creating or sending it throws, the catch clause hands the
\* exception to onError.  onError logs the failure and, unless the url that
\* failed is the default font's, makes it the url and calls tryLoad again.
\* throws lists, for the requests this task gets to send, whether sending
\* throws (none listed: it does not).
RECURSIVE TryLoad(_, _, _, _)
RECURSIVE OnError(_, _, _, _)

\* A slip: onError retries whatever the url that failed.
OnErrorAlwaysRetrying(w, key, url, throws) ==
  TryLoad([w EXCEPT !.xhr[key] = "", !.failLog[key] = Append(@, url)],
          key, defaultFontURL, throws)

OnError(w, key, url, throws) ==
  LET w1 == [w EXCEPT !.xhr[key] = "", !.failLog[key] = Append(@, url)]
  IN  IF url # defaultFontURL THEN TryLoad(w1, key, defaultFontURL, throws) ELSE w1

TryLoad(w, key, url, throws) ==
  LET w1 == [w EXCEPT !.fetchLog[key] = Append(@, url)]
  IN  IF throws # <<>> /\ Head(throws)
        THEN OnError(w1, key, url, Tail(throws))
        ELSE [w1 EXCEPT !.xhr[key] = url]

\* A slip: a call that finds the font pending starts a load of its own.
LoadFontNotCoalescing(w, fontUrl, call, throws) ==
  LET url == IF fontUrl = NULL THEN defaultFontURL ELSE fontUrl
      font == w.fonts[url]
  IN  IF font.state = "loaded" THEN AtlasCallback(w, call, font.fontObj, TRUE)
      ELSE TryLoad([w EXCEPT !.fonts[url] =
                        [state |-> "pending", pending |-> Append(font.pending, call),
                         fontObj |-> NoFont]],
                   url, url, throws)

\* loadFont(fontUrl, callback)
LoadFont(w, fontUrl, call, throws) ==
  LET url == IF fontUrl = NULL THEN defaultFontURL ELSE fontUrl
      font == w.fonts[url]
  IN  IF font.state = "pending"
        THEN [w EXCEPT !.fonts[url].pending = Append(@, call)]
      ELSE IF font.state = "loaded"
        THEN AtlasCallback(w, call, font.fontObj, TRUE)
      ELSE TryLoad([w EXCEPT !.fonts[url] =
                        [state |-> "pending", pending |-> << call >>,
                         fontObj |-> NoFont]],
                   url, url, throws)

\* getSdfAtlas(fontUrl, sdfGlyphSize, callback)
GetSdfAtlas(w0, call, throws) ==
  LET w == [w0 EXCEPT !.calls[call.messageId] = call.args]
      url == IF call.args.font = NULL THEN defaultFontURL ELSE call.args.font
      atlasKey == AtlasKey(url, call.args.sdfGlyphSize)
  IN  IF w.fontAtlases[atlasKey] # NoAtlas
        THEN ProcessWithAtlas(w, call, atlasKey, TRUE)
        ELSE LoadFont(w, call.args.font, call, throws)

\* A slip: the waiting callbacks are run through twice.
FontLoadedRunningTwice(w, key, fontObj) ==
  LET w1 == [w EXCEPT !.fonts[key] = [state |-> "loaded", pending |-> <<>>,
                                      fontObj |-> fontObj]]
  IN  RunCallbacks(RunCallbacks(w1, w.fonts[key].pending, fontObj),
                   w.fonts[key].pending, fontObj)

\* The callback loadFont hands to doLoadFont:
\*   callbacks = fonts[fontUrl].pending; fonts[fontUrl] = fontObj;
\*   callbacks.forEach(cb => cb(fontObj))
FontLoaded(w, key, fontObj) ==
  RunCallbacks([w EXCEPT !.fonts[key] = [state |-> "loaded", pending |-> <<>>,
                                         fontObj |-> fontObj]],
               w.fonts[key].pending, fontObj)

\* What the XMLHttpRequest of a load ends with: onload with a status >= 400,
\* onload with a status in 1..399 and a response fontParser accepts or throws
\* on, onload with status 0, or onerror.
XhrOutcomes == {"parsed", "parserThrows", "status400", "status0", "error"}

XhrHandler(w, key, outcome, throws) ==
  LET url == w.xhr[key]
  IN  CASE outcome = "status400" -> OnError(w, key, url, throws)
        [] outcome = "error" -> OnError(w, key, url, throws)
        [] outcome = "status0" -> [w EXCEPT !.xhr[key] = ""]
        [] outcome = "parserThrows" ->
             OnError([w EXCEPT !.parseLog[key] = Append(@, url)], key, url, throws)
        [] outcome = "parsed" ->
             FontLoaded([w EXCEPT !.parseLog[key] = Append(@, url),
                                  !.parseSerial = @ + 1,
                                  !.xhr[key] = ""],
                        key, [url |-> url, serial |-> w.parseSerial + 1])

(***************************************************************************)
(* Text and getTextRenderInfo (main thread)                                *)
(***************************************************************************)
syncStartEvent == "syncstart"
syncCompleteEvent == "synccomplete"

\* The requests of a Text the worker has not answered yet
InFlight(t) == { id \in MessageIds : openRequests[id].text = t }

\* Requests already issued plus the follow-up requests the queued syncs will
\* issue: keeps messageId within MaxMessages.
Reserved == messageId + Cardinality({ t \in Texts : queuedSyncs[t] # <<>> })

\* args of getTextRenderInfo as Text.sync builds them and getTextRenderInfo
\* normalises them: args.font = toAbsoluteURL(args.font || CONFIG.defaultFontURL),
\* args.sdfGlyphSize = args.sdfGlyphSize || CONFIG.sdfGlyphSize
RenderArgs(p) ==
  [text |-> p.text,
   font |-> IF p.font = NULL THEN defaultFontURL ELSE p.font,
   sdfGlyphSize |-> IF p.sdfGlyphSize = 0 THEN sdfGlyphSize ELSE p.sdfGlyphSize]

\* The main thread's variables, threaded through the calls of one task.
MainState ==
  [needsSync |-> needsSync, isSyncing |-> isSyncing, queuedSyncs |-> queuedSyncs,
   textRenderInfo |-> textRenderInfo, atlases |-> atlases,
   openRequests |-> openRequests, messageId |-> messageId, toWorker |-> toWorker,
   syncCbCount |-> syncCbCount, events |-> events]

\* getTextRenderInfo(args, callback): create the atlas texture of the font
\* and size if there is none, and post the request to the worker.
GetTextRenderInfo(m, t, callback) ==
  LET args == RenderArgs(props[t])
      atlasKey == AtlasKey(args.font, args.sdfGlyphSize)
      id == m.messageId + 1
  IN  [m EXCEPT !.atlases[atlasKey] =
                   IF @ = NoTexture THEN NewTexture(args.sdfGlyphSize) ELSE @,
                !.messageId = id,
                !.openRequests[id] = [text |-> t, args |-> args, callback |-> callback],
                !.toWorker = Append(@, [messageId |-> id, args |-> args])]

\* A slip: sync does not look at _isSyncing.
SyncStartingWhileSyncing(m, t, callback) ==
  IF ~m.needsSync[t] THEN m
  ELSE GetTextRenderInfo([m EXCEPT !.needsSync[t] = FALSE, !.isSyncing[t] = TRUE,
                                   !.events[t] = Append(@, syncStartEvent)],
                         t, callback)

\* Text.sync(callback).  A callback is the sequence of the application's
\* callbacks it invokes: << >> for no callback, << c >> for the application's
\* callback c, and for the closure of the completion handler the callbacks
\* that were queued.
Sync(m, t, callback) ==
  IF ~m.needsSync[t] THEN m
  ELSE IF m.isSyncing[t]
    THEN [m EXCEPT !.needsSync[t] = FALSE,
                   !.queuedSyncs[t] = Append(@, callback)]
  ELSE GetTextRenderInfo([m EXCEPT !.needsSync[t] = FALSE, !.isSyncing[t] = TRUE,
                                   !.events[t] = Append(@, syncStartEvent)],
                         t, callback)

RECURSIVE Flatten(_)
Flatten(callbacks) ==
  IF callbacks = <<>> THEN <<>> ELSE Head(callbacks) \o Flatten(Tail(callbacks))

RECURSIVE InvokeAll(_, _)
InvokeAll(counts, callback) ==
  IF callback = <<>> THEN counts
  ELSE InvokeAll([counts EXCEPT ![Head(callback)] = @ + 1], Tail(callback))

\* A slip: the queued callbacks are called when the request in flight
\* completes, not when their own request does.
SyncCompletedCallingQueued(m, t, info, callback) ==
  LET m1 == [m EXCEPT !.isSyncing[t] = FALSE, !.textRenderInfo[t] = info]
      queued == m1.queuedSyncs[t]
      m2 == IF queued # <<>>
              THEN Sync([m1 EXCEPT !.queuedSyncs[t] = <<>>, !.needsSync[t] = TRUE],
                        t, <<>>)
              ELSE m1
  IN  [m2 EXCEPT !.events[t] = Append(@, syncCompleteEvent),
                 !.syncCbCount = InvokeAll(@, callback \o Flatten(queued))]

\* A slip: the queued syncs are forgotten, no request is made for them.
SyncCompletedDroppingQueued(m, t, info, callback) ==
  LET m1 == [m EXCEPT !.isSyncing[t] = FALSE, !.textRenderInfo[t] = info,
                      !.queuedSyncs[t] = <<>>]
  IN  [m1 EXCEPT !.events[t] = Append(@, syncCompleteEvent),
                 !.syncCbCount = InvokeAll(@, callback \o Flatten(m.queuedSyncs[t]))]

\* The callback Text.sync hands to getTextRenderInfo: store the result, start
\* the follow-up sync of the queued ones, dispatch synccomplete, then call the
\* callback.
SyncCompleted(m, t, info, callback) ==
  LET m1 == [m EXCEPT !.isSyncing[t] = FALSE, !.textRenderInfo[t] = info]
      queued == m1.queuedSyncs[t]
      m2 == IF queued # <<>>
              THEN Sync([m1 EXCEPT !.queuedSyncs[t] = <<>>, !.needsSync[t] = TRUE],
                        t, Flatten(queued))
              ELSE m1
  IN  [m2 EXCEPT !.events[t] = Append(@, syncCompleteEvent),
                 !.syncCbCount = InvokeAll(@, callback)]

\* worker.onmessage and the then() of getTextRenderInfo: copy the new glyphs'
\* bitmaps into the atlas texture and call back with the render info.
ResponseHandler(m, response) ==
  LET request == m.openRequests[response.messageId]
      atlasKey == AtlasKey(request.args.font, request.args.sdfGlyphSize)
      m1 == [m EXCEPT !.openRequests[response.messageId] = NoRequest,
                      !.atlases[atlasKey] =
                         CopyNewGlyphs(@, request.args.sdfGlyphSize,
                                       response.result.newGlyphSDFs)]
  IN  SyncCompleted(m1, request.text,
                    [messageId |-> response.messageId,
                     parameters |-> request.args,
                     glyphAtlasIndices |-> response.result.glyphAtlasIndices],
                    request.callback)

(***************************************************************************)
(* Spec: initial state and actions                                         *)
(***************************************************************************)
TexIdle ==
  /\ texSize = 0
  /\ texImg = NoTexture
  /\ texCount = 0
  /\ texWritten = {}

BidiIdle ==
  /\ bidiString = <<>>
  /\ bidiDirection = "auto"
  /\ bidiResult = [levels |-> <<>>, paragraphs |-> <<>>]
  /\ bidiSegments = <<>>
  /\ bidiIndices = <<>>
  /\ bidiPc = "idle"

\* No process() call is laid out and no component is attached
NoLayout == [pc |-> "idle"]
NoComponent == [pc |-> "idle"]
\* No worker has been created and no distance query is made
NoWorker == [pc |-> "idle"]
NoSDF == [pc |-> "idle"]
OthersIdle == layout = NoLayout /\ component = NoComponent /\ rpc = NoWorker /\ sdf = NoSDF

SysInit ==
  /\ props = [t \in Texts |-> InitialProps]
  /\ needsSync = [t \in Texts |-> TRUE]
  /\ isSyncing = [t \in Texts |-> FALSE]
  /\ queuedSyncs = [t \in Texts |-> <<>>]
  /\ textRenderInfo = [t \in Texts |-> NoInfo]
  /\ atlases = [k \in AtlasKeys |-> NoTexture]
  /\ openRequests = [id \in MessageIds |-> NoRequest]
  /\ messageId = 0
  /\ toWorker = <<>>
  /\ fromWorker = <<>>
  /\ fonts = [u \in FontURLs |-> [state |-> "none", pending |-> <<>>, fontObj |-> NoFont]]
  /\ fontAtlases = [k \in AtlasKeys |-> NoAtlas]
  /\ xhr = [u \in FontURLs |-> ""]
  /\ writes = 0
  /\ syncCalls = 0
  /\ syncCbCount = [c \in 1..MaxSyncCallbacks |-> 0]
  /\ events = [t \in Texts |-> <<>>]
  /\ cbCount = [id \in MessageIds |-> 0]
  /\ cbSync = {}
  /\ cbFont = [id \in MessageIds |-> NoFont]
  /\ fetchLog = [u \in FontURLs |-> <<>>]
  /\ parseLog = [u \in FontURLs |-> <<>>]
  /\ parseSerial = 0
  /\ failLog = [u \in FontURLs |-> <<>>]
  /\ calls = [id \in MessageIds |-> NoArgs]

Init == SysInit /\ TexIdle /\ BidiIdle /\ OthersIdle

SetMain(m) ==
  /\ needsSync' = m.needsSync
  /\ isSyncing' = m.isSyncing
  /\ queuedSyncs' = m.queuedSyncs
  /\ textRenderInfo' = m.textRenderInfo
  /\ atlases' = m.atlases
  /\ openRequests' = m.openRequests
  /\ messageId' = m.messageId
  /\ toWorker' = m.toWorker
  /\ syncCbCount' = m.syncCbCount
  /\ events' = m.events

SetWorker(w) ==
  /\ fonts' = w.fonts
  /\ fontAtlases' = w.fontAtlases
  /\ xhr' = w.xhr
  /\ fromWorker' = w.fromWorker
  /\ cbCount' = w.cbCount
  /\ cbSync' = w.cbSync
  /\ cbFont' = w.cbFont
  /\ fetchLog' = w.fetchLog
  /\ parseLog' = w.parseLog
  /\ parseSerial' = w.parseSerial
  /\ failLog' = w.failLog
  /\ calls' = w.calls

workerVars == << fonts, fontAtlases, xhr, cbCount, cbSync, cbFont, fetchLog,
                 parseLog, parseSerial, failLog, calls >>

\* Whether creating or sending an XMLHttpRequest throws is a choice only
\* where the handler gets to send one.
ThrowChoices(call) ==
  IF fonts[call.args.font].state # "none"
       \/ fontAtlases[AtlasKey(call.args.font, call.args.sdfGlyphSize)] # NoAtlas
    THEN { << >> }
  ELSE IF call.args.font = defaultFontURL THEN { << FALSE >>, << TRUE >> }
  ELSE { << FALSE >>, << TRUE, FALSE >>, << TRUE, TRUE >> }

RetryThrowChoices(key, outcome) ==
  IF outcome \in {"status400", "error", "parserThrows"} /\ xhr[key] # defaultFontURL
    THEN { << FALSE >>, << TRUE >> } ELSE { << >> }

\* The setter of a syncable property
SetProp(t, p, v) ==
  /\ writes < MaxWrites
  /\ v # props[t][p]
  /\ props' = [props EXCEPT ![t][p] = v]
  /\ needsSync' = [needsSync EXCEPT ![t] = TRUE]
  /\ writes' = writes + 1
  /\ UNCHANGED << isSyncing, queuedSyncs, textRenderInfo, atlases, openRequests,
                  messageId, toWorker, fromWorker, syncCalls, syncCbCount, events,
                  workerVars, texVars, bidiVars, layout, component, rpc, sdf >>

\* A call of Text.sync by the application or by onBeforeRender, with a
\* callback of its own or with none
CallSync(t, withCallback) ==
  /\ withCallback => syncCalls < MaxSyncCallbacks
  /\ needsSync[t] => Reserved < MaxMessages \/ (isSyncing[t] /\ queuedSyncs[t] # <<>>)
  /\ needsSync[t] \/ withCallback
  /\ syncCalls' = IF withCallback THEN syncCalls + 1 ELSE syncCalls
  /\ SetMain(Sync(MainState, t, IF withCallback THEN << syncCalls + 1 >> ELSE <<>>))
  /\ UNCHANGED << props, writes, fromWorker, workerVars, texVars, bidiVars, layout, component, rpc, sdf >>

\* The worker's message handler: callModule runs process() on the args
WorkerOnMessage(throws) ==
  /\ toWorker' = Tail(toWorker)
  /\ SetWorker(GetSdfAtlas(WorkerState, Head(toWorker), throws))
  /\ UNCHANGED << props, needsSync, isSyncing, queuedSyncs, textRenderInfo, atlases,
                  openRequests, messageId, writes, syncCalls, syncCbCount, events,
                  texVars, bidiVars, layout, component, rpc, sdf >>

\* request.onload / request.onerror of the XMLHttpRequest of a load
XhrEvent(key, outcome, throws) ==
  /\ xhr[key] # ""
  /\ SetWorker(XhrHandler(WorkerState, key, outcome, throws))
  /\ UNCHANGED << props, needsSync, isSyncing, queuedSyncs, textRenderInfo, atlases,
                  openRequests, messageId, toWorker, writes, syncCalls, syncCbCount,
                  events,
                  texVars, bidiVars, layout, component, rpc, sdf >>

\* The main thread's handler of a message of the worker
MainOnMessage ==
  /\ fromWorker # <<>>
  /\ fromWorker' = Tail(fromWorker)
  /\ SetMain(ResponseHandler(MainState, Head(fromWorker)))
  /\ UNCHANGED << props, writes, syncCalls, workerVars, texVars, bidiVars, layout, component, rpc, sdf >>

Next ==
  \/ \E t \in Texts, p \in PropNames : \E v \in PropValues(p) : SetProp(t, p, v)
  \/ \E t \in Texts, withCallback \in BOOLEAN : CallSync(t, withCallback)
  \/ /\ toWorker # <<>>
     /\ \E throws \in ThrowChoices(Head(toWorker)) : WorkerOnMessage(throws)
  \/ \E key \in FontURLs, outcome \in XhrOutcomes :
       \E throws \in RetryThrowChoices(key, outcome) : XhrEvent(key, outcome, throws)
  \/ MainOnMessage

Spec == Init /\ [][Next]_vars

(***************************************************************************)
(* Properties of the font processor and of Text.sync (Spec)                *)
(***************************************************************************)
\* The process() calls the worker has made
Started(id) == calls[id] # NoArgs

\* The loadFont requests that reached doLoadFont
Requested(key) == fonts[key].state # "none"

\* The load of key has ended without a font: the request for the default
\* font url failed, and nothing is in flight.
LoadFailed(key) ==
  /\ fonts[key].state = "pending"
  /\ xhr[key] = ""
  /\ failLog[key] # <<>>
  /\ failLog[key][Len(failLog[key])] = defaultFontURL

Responses == { fromWorker[i].messageId : i \in DOMAIN fromWorker }

Count(seq, x) == Cardinality({ i \in DOMAIN seq : seq[i] = x })

\* C1: the callback of a process() call is invoked at most once, and exactly
\* once as soon as the font the call names is loaded (from its own url or
\* from the default font's): never before, and not again later.
C1_CallbackOnce ==
  \A id \in MessageIds :
    /\ cbCount[id] <= 1
    /\ Started(id) =>
         (cbCount[id] = 1 <=> fonts[calls[id].font].state = "loaded")
    /\ ~Started(id) => cbCount[id] = 0

\* One call was called back inside process() (font cached) and another one
\* later, from the load it waited for.
C1_Witness ==
  \E a, b \in MessageIds :
    /\ a \in cbSync /\ cbCount[a] = 1
    /\ b \notin cbSync /\ cbCount[b] = 1

\* C2: the calls that name one font url share one load: the url is fetched
\* exactly once on their behalf however many they are, fontParser gets its
\* response at most once (exactly once when the font was parsed from it), and
\* every waiting callback is handed the same font object.
C2_OneFetchOneParse ==
  \A key \in FontURLs :
    /\ Count(fetchLog[key], key) = (IF Requested(key) THEN 1 ELSE 0)
    /\ Count(parseLog[key], key) <= 1
    /\ (fonts[key].state = "loaded" /\ fonts[key].fontObj.url = key)
         => Count(parseLog[key], key) = 1
    /\ \A id \in MessageIds :
         (Started(id) /\ calls[id].font = key /\ cbFont[id] # NoFont)
           => (fonts[key].state = "loaded" /\ cbFont[id] = fonts[key].fontObj)

\* Two calls that waited for the same load were handed the font object.
C2_Witness ==
  \E a, b \in MessageIds :
    /\ a # b
    /\ Started(a) /\ Started(b)
    /\ calls[a].font = calls[b].font
    /\ a \notin cbSync /\ b \notin cbSync
    /\ cbFont[a] # NoFont /\ cbFont[b] = cbFont[a]

\* C3: a failed load is retried once, with the default font url, unless it was
\* the load of the default font url that failed; a load makes at most two
\* fetch attempts.
C3_RetryOnce ==
  \A key \in FontURLs :
    /\ Len(fetchLog[key]) <= 2
    /\ Requested(key) =>
         fetchLog[key] =
           << key >> \o (IF failLog[key] # <<>> /\ key # defaultFontURL
                           THEN << defaultFontURL >> ELSE << >>)
    /\ ~Requested(key) => fetchLog[key] = << >>

\* The font and then the default font failed to load.
C3_Witness ==
  \E key \in FontURLs :
    /\ key # defaultFontURL
    /\ failLog[key] = << key, defaultFontURL >>
    /\ fetchLog[key] = << key, defaultFontURL >>

\* C4: when the font and the default font both failed to load, the caller of
\* process() is told: every call that waits for the font has been answered.
C4_FailureSurfaced ==
  \A id \in MessageIds :
    (Started(id) /\ LoadFailed(calls[id].font))
      => (id \in Responses \/ openRequests[id] = NoRequest)

\* C5: a Text has at most one request in flight; syncs made meanwhile are
\* queued, and the request of the queued ones is issued by the handler that
\* applies the result of the one in flight.
C5_OneInFlight ==
  \A t \in Texts :
    /\ Cardinality(InFlight(t)) <= 1
    /\ isSyncing[t] <=> InFlight(t) # {}
    /\ queuedSyncs[t] # <<>> => isSyncing[t]

C5_StartsAfterApplied ==
  \A t \in Texts : \A id \in MessageIds :
    (id \in InFlight(t)' /\ id \notin InFlight(t) /\ InFlight(t) # {})
      => /\ textRenderInfo'[t].messageId \in InFlight(t)
         /\ queuedSyncs[t] # <<>>
         /\ queuedSyncs'[t] = <<>>

C5_SerializedPerText == []C5_OneInFlight /\ [][C5_StartsAfterApplied]_vars

\* A sync is queued behind the request of its Text while the other Text has
\* a request in flight too.
C5_Witness ==
  \E t, u \in Texts :
    /\ t # u
    /\ InFlight(t) # {} /\ queuedSyncs[t] # <<>>
    /\ InFlight(u) # {}

\* C6: in every atlas the atlas indices given out are 0..glyphCount-1, one
\* per glyph index, and a glyph keeps the atlas index it was given.
C6_AtlasIndices ==
  \A k \in AtlasKeys :
    LET atlas == fontAtlases[k]
    IN  /\ { atlas.glyphs[g] : g \in DOMAIN atlas.glyphs } = 0..(atlas.glyphCount - 1)
        /\ Cardinality(DOMAIN atlas.glyphs) = atlas.glyphCount

C6_IndexPermanent ==
  \A k \in AtlasKeys :
    \A g \in DOMAIN fontAtlases[k].glyphs :
      /\ g \in DOMAIN fontAtlases'[k].glyphs
      /\ fontAtlases'[k].glyphs[g] = fontAtlases[k].glyphs[g]

C6_AtlasMonotonic == []C6_AtlasIndices /\ [][C6_IndexPermanent]_vars

\* Two calls that waited for the same font load filled one atlas with three
\* glyphs, one of which both of them use.
C6_Witness ==
  \E a, b \in MessageIds :
    /\ a # b
    /\ Started(a) /\ Started(b)
    /\ calls[a].font = calls[b].font /\ calls[a].sdfGlyphSize = calls[b].sdfGlyphSize
    /\ calls[a].text # calls[b].text
    /\ a \notin cbSync /\ b \notin cbSync
    /\ cbCount[a] = 1 /\ cbCount[b] = 1
    /\ fontAtlases[AtlasKey(calls[a].font, calls[a].sdfGlyphSize)].glyphCount = 3

(***************************************************************************)
(* Properties of Text.sync with queued syncs (Spec)                        *)
(***************************************************************************)
\* The application's callbacks a request in flight will call
CallbacksOf(id) == { openRequests[id].callback[i] : i \in DOMAIN openRequests[id].callback }

\* The application's callbacks queued on a Text
QueuedCallbacks(t) ==
  UNION { { queuedSyncs[t][i][j] : j \in DOMAIN queuedSyncs[t][i] } : i \in DOMAIN queuedSyncs[t] }

\* The request of t that the step answers, if any
Completes(t, id) == id \in InFlight(t) /\ openRequests'[id] = NoRequest

\* C23: when the request in flight of a Text with queued syncs completes,
\* exactly one follow-up request is issued for all of them, built from the
\* property values of that moment; a queued callback is not called before its
\* follow-up request completes, and is called exactly once when it does.
C23_QueuedCallbacksWait ==
  /\ \A c \in 1..MaxSyncCallbacks : syncCbCount[c] <= 1
  /\ \A t \in Texts : \A c \in QueuedCallbacks(t) : syncCbCount[c] = 0
  /\ \A id \in MessageIds : \A c \in CallbacksOf(id) : syncCbCount[c] = 0

C23_OneFollowUp ==
  \A t \in Texts : \A id \in MessageIds :
    (Completes(t, id) /\ queuedSyncs[t] # <<>>)
      => /\ messageId' = messageId + 1
         /\ openRequests'[messageId'] =
              [text |-> t, args |-> RenderArgs(props[t]),
               callback |-> Flatten(queuedSyncs[t])]
         /\ toWorker' = Append(toWorker, [messageId |-> messageId',
                                          args |-> RenderArgs(props[t])])
         /\ queuedSyncs'[t] = <<>>
         /\ \A c \in QueuedCallbacks(t) : syncCbCount'[c] = 0

C23_CalledAtCompletion ==
  \A c \in 1..MaxSyncCallbacks :
    /\ \A id \in MessageIds :
         (c \in CallbacksOf(id) /\ openRequests'[id] = NoRequest) => syncCbCount'[c] = 1
    /\ syncCbCount'[c] # syncCbCount[c]
         => \E id \in MessageIds : c \in CallbacksOf(id) /\ openRequests'[id] = NoRequest

C23_QueuedSyncsShareOneFollowUp ==
  /\ []C23_QueuedCallbacksWait
  /\ [][C23_OneFollowUp /\ C23_CalledAtCompletion]_vars

\* Two callbacks were queued on a Text whose properties changed meanwhile;
\* their follow-up request was made for the new text and has completed.
C23_Witness ==
  \E t \in Texts :
    /\ events[t] = << syncStartEvent, syncStartEvent, syncCompleteEvent, syncCompleteEvent >>
    /\ syncCalls = 2 /\ syncCbCount[1] = 1 /\ syncCbCount[2] = 1
    /\ textRenderInfo[t].messageId = messageId
    /\ textRenderInfo[t].parameters.text # << >>
    /\ \A u \in Texts \ {t} : events[u] = << >>

\* The atlas indices of the renderable glyphs of a text, as the atlas has them
IndicesOf(text, atlas) ==
  LET renderable == SelectSeq(text, IsRenderable)
  IN  [i \in DOMAIN renderable |-> atlas.glyphs[renderable[i]]]

\* A Text that needs no sync, has no request in flight and no queued sync
Quiescent(t) == ~needsSync[t] /\ InFlight(t) = {} /\ ~isSyncing[t] /\ queuedSyncs[t] = <<>>

\* C25: the render info of a quiescent Text was computed from the current
\* values of its syncable properties.
C25_QuiescentIsCurrent ==
  \A t \in Texts :
    Quiescent(t) =>
      LET args == RenderArgs(props[t])
      IN  /\ textRenderInfo[t].parameters = args
          /\ textRenderInfo[t].glyphAtlasIndices =
               IndicesOf(args.text, fontAtlases[AtlasKey(args.font, args.sdfGlyphSize)])

\* A property was written and a sync queued while the first request of the
\* Text was in flight; both requests have completed.
C25_Witness ==
  \E t \in Texts :
    /\ Quiescent(t)
    /\ Len(events[t]) = 4
    /\ textRenderInfo[t].parameters # RenderArgs(InitialProps)

\* C26: the events of a Text are syncstart, synccomplete, syncstart, ... in
\* this order.
C26_EventsAlternate ==
  \A t \in Texts : \A i \in DOMAIN events[t] :
    events[t][i] = (IF i % 2 = 1 THEN syncStartEvent ELSE syncCompleteEvent)

\* C27: a callback handed to Text.sync has been called once, or is held by a
\* request in flight or by the queue and still to be called.
C27_CallbackCalledOrHeld ==
  \A c \in 1..syncCalls :
    \/ syncCbCount[c] = 1
    \/ /\ syncCbCount[c] = 0
       /\ \/ \E t \in Texts : c \in QueuedCallbacks(t)
          \/ \E id \in MessageIds : c \in CallbacksOf(id)

\* The bitmap of the glyph is in the texture, in the channel and square of
\* its atlas index
BitmapCopied(img, size, glyphIndex, atlasIndex) ==
  \A k \in 0..(size * size - 1) :
    LET offset == WriteOffset(img, size, atlasIndex, k % size, k \div size)
    IN  /\ offset < Len(img.data)
        /\ img.data[offset + 1] = SdfTextureData(glyphIndex, size)[k + 1]

\* C30: every atlas index of a render info handed to a callback belongs to a
\* glyph of the atlas whose bitmap is in the atlas texture.
C30_DeliveredGlyphsAreInTexture ==
  \A t \in Texts :
    textRenderInfo[t] # NoInfo =>
      LET args == textRenderInfo[t].parameters
          atlasKey == AtlasKey(args.font, args.sdfGlyphSize)
          indices == textRenderInfo[t].glyphAtlasIndices
      IN  /\ Len(indices) = Len(SelectSeq(args.text, IsRenderable))
          /\ \A i \in DOMAIN indices :
               \E g \in DOMAIN fontAtlases[atlasKey].glyphs :
                 /\ fontAtlases[atlasKey].glyphs[g] = indices[i]
                 /\ g = SelectSeq(args.text, IsRenderable)[i]
                 /\ BitmapCopied(atlases[atlasKey], args.sdfGlyphSize, g, indices[i])

\* Two Texts share the font and the size; the later request uses a glyph whose
\* bitmap was generated for the earlier one.
C30_Witness ==
  \E t, u \in Texts :
    /\ textRenderInfo[t] # NoInfo /\ textRenderInfo[u] # NoInfo
    /\ textRenderInfo[t].messageId < textRenderInfo[u].messageId
    /\ textRenderInfo[t].parameters.font = textRenderInfo[u].parameters.font
    /\ textRenderInfo[t].parameters.sdfGlyphSize = textRenderInfo[u].parameters.sdfGlyphSize
    /\ textRenderInfo[t].parameters.text # textRenderInfo[u].parameters.text
    /\ \E i \in DOMAIN textRenderInfo[t].glyphAtlasIndices :
       \E j \in DOMAIN textRenderInfo[u].glyphAtlasIndices :
         textRenderInfo[t].glyphAtlasIndices[i] = textRenderInfo[u].glyphAtlasIndices[j]

\* The event loop runs every task that is ready: a message posted to the
\* worker or to the main thread is handled, and an XMLHttpRequest that was sent
\* fires onload or onerror.  The application is free to stop calling.
WorkerTask == toWorker # <<>> /\ \E throws \in ThrowChoices(Head(toWorker)) : WorkerOnMessage(throws)
XhrTask ==
  \E key \in FontURLs, outcome \in XhrOutcomes :
    \E throws \in RetryThrowChoices(key, outcome) : XhrEvent(key, outcome, throws)
SpecFair ==
  Spec /\ WF_vars(WorkerTask) /\ WF_vars(XhrTask) /\ WF_vars(MainOnMessage)

\* The Texts whose request in flight waits for the font of key
WaitingFor(key) ==
  { t \in Texts : isSyncing[t] /\ \E id \in InFlight(t) : openRequests[id].args.font = key }

\* C28: when a font url and its fallback have both failed to load, the url
\* does not stay pending and the Texts that wait for it do not stay syncing.
C28_FailureDoesNotBlock ==
  \A key \in FontURLs :
    LoadFailed(key) ~> (fonts[key].state # "pending" /\ WaitingFor(key) = {})

(***************************************************************************)
(* SpecTex: the atlas texture under arbitrary bitmaps                      *)
(***************************************************************************)
SysIdle == SysInit

\* The bitmaps the worker sends: sdfGlyphSize * sdfGlyphSize bytes, none zero
Bitmap(seed, size) == [k \in 1..(size * size) |-> seed * 16 + k]
BitmapSeeds == {1, 2}

\* The bytes the copy loop is to write for a glyph
GlyphWrites(img, size, glyph) ==
  { << glyph.atlasIndex,
       WriteOffset(img, size, glyph.atlasIndex, xy[1], xy[2]),
       glyph.textureData[xy[2] * size + xy[1] + 1] >> :
      xy \in (0..(size - 1)) \X (0..(size - 1)) }

TexInit ==
  /\ texSize \in SdfGlyphSizes
  /\ texImg = NewTexture(texSize)
  /\ texCount = 0
  /\ texWritten = {}
  /\ SysIdle
  /\ BidiIdle
  /\ OthersIdle

\* The response handler of getTextRenderInfo for a result with one or two
\* new glyphs; the worker numbers the new glyphs of an atlas consecutively.
TexResponse(seeds) ==
  LET newGlyphSDFs == [i \in 1..Len(seeds) |->
                         [textureData |-> Bitmap(seeds[i], texSize),
                          atlasIndex |-> texCount + i - 1]]
  IN  /\ texCount + Len(seeds) <= MaxTexGlyphs
      /\ texImg' = CopyNewGlyphs(texImg, texSize, newGlyphSDFs)
      /\ texCount' = texCount + Len(seeds)
      /\ texWritten' = texWritten \cup
           UNION { GlyphWrites(texImg, texSize, newGlyphSDFs[i]) : i \in 1..Len(seeds) }
      /\ UNCHANGED << texSize, sysVars, bidiVars, layout, component, rpc, sdf >>

TexNext ==
  \E seeds \in { << a >> : a \in BitmapSeeds } \cup { << a, a >> : a \in BitmapSeeds } :
    TexResponse(seeds)

SpecTex == TexInit /\ [][TexNext]_vars

\* C7: growing the texture leaves every byte written before where it was, and
\* makes room for every byte of the new bitmap: each byte the copy loop was
\* to write, for any atlas index so far, is in the array at its offset.
C7_GrowthKeepsBitmaps ==
  /\ \A w \in texWritten :
       /\ w[2] < Len(texImg.data)
       /\ texImg.data[w[2] + 1] = w[3]
  /\ Cardinality(texWritten) = texCount * texSize * texSize
  /\ Cardinality({ w[2] : w \in texWritten }) = texCount * texSize * texSize

\* The texture has been doubled for a new atlas index and holds the bitmaps
\* written before.
C7_Witness ==
  /\ Len(texImg.data) = 2 * texSize * textureWidth * 4
  /\ texImg.height = 2 * texSize
  /\ texCount * texSize * texSize > texSize * textureWidth * 4

(***************************************************************************)
(* bidi: character data                                                    *)
(***************************************************************************)
\* A string is a sequence of code points; string[i + 1] is the character at
\* index i.  The arrays of the algorithm (charTypes, embedLevels, levels)
\* are functions on 0..(length - 1), indexed as in the source.

\* The part of the map parseData builds from DATA that covers the characters
\* the strings of SpecBidi are made of.  A bidi type is the name the source
\* gives it; a bitmask of types is the set of their names.
DATA ==
  ( 1488 :> "R"   @@ 1575 :> "AL"  @@ 49 :> "EN"    @@ 43 :> "ES"    @@
    36 :> "ET"    @@ 1633 :> "AN"  @@ 44 :> "CS"    @@ 10 :> "B"     @@
    9 :> "S"      @@ 32 :> "WS"    @@ 33 :> "ON"    @@ 40 :> "ON"    @@
    41 :> "ON"    @@ 91 :> "ON"    @@ 93 :> "ON"    @@ 173 :> "BN"   @@
    768 :> "NSM"  @@ 8237 :> "LRO" @@ 8238 :> "RLO" @@ 8234 :> "LRE" @@
    8235 :> "RLE" @@ 8236 :> "PDF" @@ 8294 :> "LRI" @@ 8295 :> "RLI" @@
    8296 :> "FSI" @@ 8297 :> "PDI" @@ 9001 :> "ON"  @@ 9002 :> "ON"  @@
    12296 :> "ON" @@ 12297 :> "ON" )

TYPES == { DATA[c] : c \in DOMAIN DATA } \cup {"L"}

ISOLATE_INIT_TYPES == {"LRI", "RLI", "FSI"}
STRONG_TYPES == {"L", "R", "AL"}
NEUTRAL_ISOLATE_TYPES == {"B", "S", "WS", "ON", "FSI", "LRI", "RLI", "PDI"}
BN_LIKE_TYPES == {"BN", "RLE", "LRE", "RLO", "LRO", "PDF"}
TRAILING_TYPES == {"S", "WS", "B"} \cup ISOLATE_INIT_TYPES \cup {"PDI"} \cup BN_LIKE_TYPES

\* 0 where the source holds no type
NoType == "0"
\* null where the source holds no character, -1 or undefined no index
NoChar == -1
NoIndex == -1

\* map.get(char.codePointAt(0)) || TYPES.L
getBidiCharType(char) == IF char \in DOMAIN DATA THEN DATA[char] ELSE "L"

\* The bracket pairs and canonical equivalents parse$1 decodes, for the same
\* characters
openToClose == (40 :> 41 @@ 91 :> 93 @@ 9001 :> 9002 @@ 12296 :> 12297)
closeToOpen == (41 :> 40 @@ 93 :> 91 @@ 9002 :> 9001 @@ 12297 :> 12296)
canonical == (9001 :> 12296 @@ 9002 :> 12297)

openingToClosingBracket(char) ==
  IF char \in DOMAIN openToClose THEN openToClose[char] ELSE NoChar
closingToOpeningBracket(char) ==
  IF char \in DOMAIN closeToOpen THEN closeToOpen[char] ELSE NoChar
getCanonicalBracket(char) ==
  IF char \in DOMAIN canonical THEN canonical[char] ELSE NoChar

\* for (i = lo; i <= hi; i++) s = Body(s, i)
\* (the range is halved, and each half is evaluated before the next one
\* starts, so that the evaluation of a long loop stays shallow)
ForUp(lo, hi, s0, Body(_, _)) ==
  LET RECURSIVE F(_, _, _)
      F(a, b, s) == IF a > b THEN s
                    ELSE IF a = b THEN Body(s, a)
                    ELSE LET m == (a + b) \div 2
                             t == F(a, m, s)
                         IN  IF t = t THEN F(m + 1, b, t) ELSE s
  IN  F(lo, hi, s0)

\* for (i = hi; i >= lo; i--) s = Body(s, i)
ForDown(hi, lo, s0, Body(_, _)) ==
  LET RECURSIVE F(_, _, _)
      F(a, b, s) == IF a > b THEN s
                    ELSE IF a = b THEN Body(s, a)
                    ELSE LET m == (a + b) \div 2
                             t == F(m + 1, b, s)
                         IN  IF t = t THEN F(a, m, t) ELSE s
  IN  F(lo, hi, s0)

SetMax(S) == CHOOSE x \in S : \A y \in S : y <= x
SetMin(S) == CHOOSE x \in S : \A y \in S : x <= y

(***************************************************************************)
(* bidi: getEmbeddingLevels                                                *)
(***************************************************************************)
MAX_DEPTH == 125

FORMATTING_TYPES ==
  {"RLE", "LRE", "RLO", "LRO"} \cup ISOLATE_INIT_TYPES \cup {"PDI", "PDF", "B"}
nextEven(n) == n + (IF n % 2 = 1 THEN 1 ELSE 2)
\* A slip: the next even level is taken for the next odd one.
nextOddTakingEven(n) == n + (IF n % 2 = 1 THEN 1 ELSE 2)
nextOdd(n) == n + (IF n % 2 = 1 THEN 2 ELSE 1)

\* charTypeCounts is keyed by a type, or by NEUTRAL_ISOLATE_TYPES ("NI");
\* a key the Map does not hold counts 0.
NoCounts == [t \in TYPES \cup {"NI"} |-> 0]

\* changeCharType(i, type).  b holds the arrays of the algorithm: charTypes,
\* embedLevels, isolationPairs and charTypeCounts.
changeCharType(b, i, type) ==
  LET oldType == b.charTypes[i]
      c1 == [b.charTypeCounts EXCEPT ![oldType] = @ - 1]
      c2 == IF oldType \in NEUTRAL_ISOLATE_TYPES THEN [c1 EXCEPT !["NI"] = @ - 1] ELSE c1
      c3 == [c2 EXCEPT ![type] = @ + 1]
      c4 == IF type \in NEUTRAL_ISOLATE_TYPES THEN [c3 EXCEPT !["NI"] = @ + 1] ELSE c3
  IN  [b EXCEPT !.charTypes[i] = type, !.charTypeCounts = c4]

\* indexOfMatchingPDI(isolateStart), 3.1.2 BD9
\* (done: the loop has been left by break or return)
indexOfMatchingPDI(charTypes, length, isolateStart) ==
  ForUp(isolateStart + 1, length - 1,
        [done |-> FALSE, result |-> NoIndex, isolationLevel |-> 1],
        LAMBDA s, i :
          IF s.done THEN s
          ELSE IF charTypes[i] = "B" THEN [s EXCEPT !.done = TRUE]
          ELSE IF charTypes[i] = "PDI"
            THEN IF s.isolationLevel - 1 = 0
                   THEN [s EXCEPT !.done = TRUE, !.result = i]
                   ELSE [s EXCEPT !.isolationLevel = @ - 1]
          ELSE IF charTypes[i] \in ISOLATE_INIT_TYPES
            THEN [s EXCEPT !.isolationLevel = @ + 1]
          ELSE s).result

\* determineAutoEmbedLevel(start, isFSI), 3.3.1 P2 - P3
\* (next: the value of i at the next iteration, after "i = pdi" and "i++")
determineAutoEmbedLevel(charTypes, length, start, isFSI) ==
  ForUp(start, length - 1, [done |-> FALSE, result |-> 0, next |-> start],
        LAMBDA s, i :
          IF s.done \/ i < s.next THEN s
          ELSE IF charTypes[i] \in {"R", "AL"} THEN [s EXCEPT !.done = TRUE, !.result = 1]
          ELSE IF charTypes[i] \in {"B", "L"} \/ (isFSI /\ charTypes[i] = "PDI")
            THEN [s EXCEPT !.done = TRUE, !.result = 0]
          ELSE IF charTypes[i] \in ISOLATE_INIT_TYPES
            THEN LET pdi == indexOfMatchingPDI(charTypes, length, i)
                 IN  [s EXCEPT !.next = (IF pdi = NoIndex THEN length ELSE pdi) + 1]
          ELSE [s EXCEPT !.next = i + 1]).result

\* 3.3.1 P2 - P3: the level of the paragraph that starts at i
paragraphLevel(charTypes, length, baseDirection, i) ==
  IF baseDirection = "rtl" THEN 1
  ELSE IF baseDirection = "ltr" THEN 0
  ELSE determineAutoEmbedLevel(charTypes, length, i, FALSE)

\* A slip: the end of a paragraph is not moved to its separator.
splitParagraphsForgettingEnd(charTypes, length, baseDirection) ==
  ForUp(0, length - 1, [paragraphs |-> << >>, open |-> FALSE],
        LAMBDA s, i :
          LET s1 == IF ~s.open
                      THEN [paragraphs |->
                              Append(s.paragraphs,
                                [start |-> i, end |-> length - 1,
                                 level |-> paragraphLevel(charTypes, length, baseDirection, i)]),
                            open |-> TRUE]
                      ELSE s
          IN  IF charTypes[i] = "B" THEN [s1 EXCEPT !.open = FALSE] ELSE s1).paragraphs

\* A slip: the first paragraph is opened before the loop over the characters.
splitParagraphsOpeningFirst(charTypes, length, baseDirection) ==
  ForUp(0, length - 1,
        [paragraphs |-> << [start |-> 0, end |-> length - 1,
                            level |-> paragraphLevel(charTypes, length, baseDirection, 0)] >>,
         open |-> TRUE],
        LAMBDA s, i :
          LET s1 == IF ~s.open
                      THEN [paragraphs |->
                              Append(s.paragraphs,
                                [start |-> i, end |-> length - 1,
                                 level |-> paragraphLevel(charTypes, length, baseDirection, i)]),
                            open |-> TRUE]
                      ELSE s
          IN  IF charTypes[i] = "B"
                THEN [paragraphs |-> [s1.paragraphs EXCEPT ![Len(s1.paragraphs)].end = i],
                      open |-> FALSE]
                ELSE s1).paragraphs

\* 3.3.1 P1: split the text into paragraphs.  The paragraph variable of the
\* loop is the last element of paragraphs while open, null otherwise.
splitParagraphs(charTypes, length, baseDirection) ==
  ForUp(0, length - 1, [paragraphs |-> << >>, open |-> FALSE],
        LAMBDA s, i :
          LET s1 == IF ~s.open
                      THEN [paragraphs |->
                              Append(s.paragraphs,
                                [start |-> i, end |-> length - 1,
                                 level |-> paragraphLevel(charTypes, length, baseDirection, i)]),
                            open |-> TRUE]
                      ELSE s
          IN  IF charTypes[i] = "B"
                THEN [paragraphs |-> [s1.paragraphs EXCEPT ![Len(s1.paragraphs)].end = i],
                      open |-> FALSE]
                ELSE s1).paragraphs

\* statusStack.pop() until the entry on top is an isolate's
RECURSIVE popToIsolate(_)
popToIsolate(statusStack) ==
  IF statusStack[Len(statusStack)].isolate THEN statusStack
  ELSE popToIsolate(SubSeq(statusStack, 1, Len(statusStack) - 1))

\* A slip: X7 pops the entry on top also when it is an isolate's.
popEmbeddingOrIsolate(statusStack) ==
  IF Len(statusStack) > 1
    THEN SubSeq(statusStack, 1, Len(statusStack) - 1)
    ELSE statusStack

\* X7: if (!stackTop._isolate && statusStack.length > 1) statusStack.pop()
popEmbedding(statusStack) ==
  IF ~statusStack[Len(statusStack)].isolate /\ Len(statusStack) > 1
    THEN SubSeq(statusStack, 1, Len(statusStack) - 1)
    ELSE statusStack

\* 3.3.2 X1 - X8 for the character at i.  x holds b, statusStack and the three
\* counters; the top of statusStack is its last element.
explicitLevelOf(x, i, length, paragraph) ==
  LET charType == x.b.charTypes[i]
      stackTop == x.statusStack[Len(x.statusStack)]
      \* Set initial counts
      k1 == [x.b.charTypeCounts EXCEPT ![charType] = @ + 1]
      k2 == IF charType \in NEUTRAL_ISOLATE_TYPES THEN [k1 EXCEPT !["NI"] = @ + 1] ELSE k1
      b0 == [x.b EXCEPT !.charTypeCounts = k2]
      x0 == [x EXCEPT !.b = b0]
      canPush(level) ==
        level <= MAX_DEPTH /\ x.overflowIsolateCount = 0 /\ x.overflowEmbeddingCount = 0
      atTop(bb, top) ==
        LET b1 == [bb EXCEPT !.embedLevels[i] = top.level]
        IN  IF top.override # NoType THEN changeCharType(b1, i, top.override) ELSE b1
  IN  IF charType \in FORMATTING_TYPES THEN
        \* Explicit Embeddings: 3.3.2 X2 - X3
        IF charType \in {"RLE", "LRE"} THEN
          LET level == IF charType = "RLE" THEN nextOdd(stackTop.level)
                       ELSE nextEven(stackTop.level)
              x1 == [x0 EXCEPT !.b.embedLevels[i] = stackTop.level]
          IN  IF canPush(level)
                THEN [x1 EXCEPT !.statusStack =
                        Append(@, [level |-> level, override |-> NoType,
                                   isolate |-> FALSE, isolInitIndex |-> NoIndex])]
              ELSE IF x.overflowIsolateCount = 0
                THEN [x1 EXCEPT !.overflowEmbeddingCount = @ + 1]
              ELSE x1
        \* Explicit Overrides: 3.3.2 X4 - X5
        ELSE IF charType \in {"RLO", "LRO"} THEN
          LET level == IF charType = "RLO" THEN nextOdd(stackTop.level)
                       ELSE nextEven(stackTop.level)
              x1 == [x0 EXCEPT !.b.embedLevels[i] = stackTop.level]
          IN  IF canPush(level)
                THEN [x1 EXCEPT !.statusStack =
                        Append(@, [level |-> level,
                                   override |-> IF charType = "RLO" THEN "R" ELSE "L",
                                   isolate |-> FALSE, isolInitIndex |-> NoIndex])]
              ELSE IF x.overflowIsolateCount = 0
                THEN [x1 EXCEPT !.overflowEmbeddingCount = @ + 1]
              ELSE x1
        \* Isolates: 3.3.2 X5a - X5c
        ELSE IF charType \in ISOLATE_INIT_TYPES THEN
          LET resolved == IF charType = "FSI"
                            THEN IF determineAutoEmbedLevel(x.b.charTypes, length, i + 1, TRUE) = 1
                                   THEN "RLI" ELSE "LRI"
                            ELSE charType
              level == IF resolved = "RLI" THEN nextOdd(stackTop.level)
                       ELSE nextEven(stackTop.level)
              x1 == [x0 EXCEPT !.b = atTop(b0, stackTop)]
          IN  IF canPush(level)
                THEN [x1 EXCEPT !.validIsolateCount = @ + 1,
                                !.statusStack =
                                   Append(@, [level |-> level, override |-> NoType,
                                              isolate |-> TRUE, isolInitIndex |-> i])]
                ELSE [x1 EXCEPT !.overflowIsolateCount = @ + 1]
        \* Terminating Isolates: 3.3.2 X6a
        ELSE IF charType = "PDI" THEN
          LET x1 == IF x.overflowIsolateCount > 0
                      THEN [x0 EXCEPT !.overflowIsolateCount = @ - 1]
                    ELSE IF x.validIsolateCount > 0
                      THEN LET popped == popToIsolate(x.statusStack)
                               isolInitIndex == popped[Len(popped)].isolInitIndex
                           IN  [x0 EXCEPT
                                 !.overflowEmbeddingCount = 0,
                                 !.b.isolationPairs =
                                    IF isolInitIndex # NoIndex
                                      THEN [@ EXCEPT ![isolInitIndex] = i, ![i] = isolInitIndex]
                                      ELSE @,
                                 !.statusStack = SubSeq(popped, 1, Len(popped) - 1),
                                 !.validIsolateCount = @ - 1]
                    ELSE x0
          IN  [x1 EXCEPT !.b = atTop(x1.b, x1.statusStack[Len(x1.statusStack)])]
        \* Terminating Embeddings and Overrides: 3.3.2 X7
        ELSE IF charType = "PDF" THEN
          LET x1 == IF x.overflowIsolateCount = 0
                      THEN IF x.overflowEmbeddingCount > 0
                             THEN [x0 EXCEPT !.overflowEmbeddingCount = @ - 1]
                           ELSE [x0 EXCEPT !.statusStack = popEmbedding(@)]
                      ELSE x0
          IN  [x1 EXCEPT !.b.embedLevels[i] = x1.statusStack[Len(x1.statusStack)].level]
        \* End of Paragraph: 3.3.2 X8
        ELSE [x0 EXCEPT !.b.embedLevels[i] = paragraph.level]
      \* Non-formatting characters: 3.3.2 X6
      ELSE
        LET b1 == [b0 EXCEPT !.embedLevels[i] = stackTop.level]
        IN  [x0 EXCEPT !.b = IF stackTop.override # NoType /\ charType # "BN"
                               THEN changeCharType(b1, i, stackTop.override)
                               ELSE b1]

\* 3.3.2 for one paragraph: a fresh statusStack and cleared charTypeCounts
explicitLevels(b, length, paragraph) ==
  ForUp(paragraph.start, paragraph.end,
        [b |-> [b EXCEPT !.charTypeCounts = NoCounts],
         statusStack |-> << [level |-> paragraph.level, override |-> NoType,
                             isolate |-> FALSE, isolInitIndex |-> NoIndex] >>,
         overflowIsolateCount |-> 0,
         overflowEmbeddingCount |-> 0,
         validIsolateCount |-> 0],
        LAMBDA x, i : explicitLevelOf(x, i, length, paragraph)).b

\* The statusStack before and after each character of the paragraph, in the
\* loop of 3.3.2, with the character's type
explicitSteps(b, length, paragraph) ==
  ForUp(paragraph.start, paragraph.end,
        [x |-> [b |-> [b EXCEPT !.charTypeCounts = NoCounts],
                statusStack |-> << [level |-> paragraph.level, override |-> NoType,
                                    isolate |-> FALSE, isolInitIndex |-> NoIndex] >>,
                overflowIsolateCount |-> 0,
                overflowEmbeddingCount |-> 0,
                validIsolateCount |-> 0],
         steps |-> << >>],
        LAMBDA acc, i :
          LET next == explicitLevelOf(acc.x, i, length, paragraph)
          IN  [x |-> next,
               steps |-> Append(acc.steps,
                                [charType |-> acc.x.b.charTypes[i],
                                 level |-> paragraph.level,
                                 before |-> acc.x.statusStack,
                                 after |-> next.statusStack])]).steps

\* 3.3.3 X10: the level runs of a paragraph; the BN-like characters are
\* left out (5.2).  currentRun is the last element of levelRuns.
levelRunsOf(b, paragraph) ==
  ForUp(paragraph.start, paragraph.end, << >>,
        LAMBDA levelRuns, i :
          LET charType == b.charTypes[i]
              lvl == b.embedLevels[i]
              isIsolInit == charType \in ISOLATE_INIT_TYPES
              isPDI == charType = "PDI"
              n == Len(levelRuns)
          IN  IF charType \in BN_LIKE_TYPES THEN levelRuns
              ELSE IF n > 0 /\ lvl = levelRuns[n].level
                THEN [levelRuns EXCEPT ![n].end = i, ![n].endsWithIsolInit = isIsolInit]
              ELSE Append(levelRuns,
                          [start |-> i, end |-> i, level |-> lvl,
                           startsWithPDI |-> isPDI, endsWithIsolInit |-> isIsolInit]))

\* The runs of the isolating run sequence that starts with levelRuns[runIdx]:
\* while the current run ends with an isolate initiator that has a matching
\* PDI, the first later run that starts at that PDI is appended.
RECURSIVE seqRunsFrom(_, _, _, _)
seqRunsFrom(b, levelRuns, runIdx, seqRuns) ==
  LET currentRun == seqRuns[Len(seqRuns)]
      pdiIndex == b.isolationPairs[currentRun.end]
  IN  IF currentRun.endsWithIsolInit /\ pdiIndex # NoIndex
        THEN LET found == { r \in (runIdx + 1)..Len(levelRuns) :
                              levelRuns[r].start = pdiIndex }
             IN  seqRunsFrom(b, levelRuns, runIdx,
                             Append(seqRuns, levelRuns[SetMin(found)]))
        ELSE seqRuns

\* The isolating run sequence of seqRuns: its indices and its sos and eos types
isolatingRunSeq(b, paragraph, seqRuns) ==
  LET seqIndices ==
        ForUp(1, Len(seqRuns), << >>,
              LAMBDA acc, r :
                acc \o [k \in 1..(seqRuns[r].end - seqRuns[r].start + 1) |->
                          seqRuns[r].start + k - 1])
      firstLevel == b.embedLevels[seqIndices[1]]
      before == { i \in 0..(seqIndices[1] - 1) : b.charTypes[i] \notin BN_LIKE_TYPES }
      prevLevel == IF before = {} THEN paragraph.level ELSE b.embedLevels[SetMax(before)]
      lastIndex == seqIndices[Len(seqIndices)]
      lastLevel == b.embedLevels[lastIndex]
      after == { i \in (lastIndex + 1)..paragraph.end : b.charTypes[i] \notin BN_LIKE_TYPES }
      nextLevel == IF b.charTypes[lastIndex] \in ISOLATE_INIT_TYPES \/ after = {}
                     THEN paragraph.level
                     ELSE b.embedLevels[SetMin(after)]
  IN  [seqIndices |-> seqIndices,
       sosType |-> IF Max(prevLevel, firstLevel) % 2 = 1 THEN "R" ELSE "L",
       eosType |-> IF Max(nextLevel, lastLevel) % 2 = 1 THEN "R" ELSE "L"]

\* The isolating run sequences of a paragraph (BD13): one for each level run
\* that does not start with a PDI matching an isolate initiator
isolatingRunSeqsOf(b, paragraph) ==
  LET levelRuns == levelRunsOf(b, paragraph)
  IN  ForUp(1, Len(levelRuns), << >>,
            LAMBDA isolatingRunSeqs, runIdx :
              LET run == levelRuns[runIdx]
              IN  IF ~run.startsWithPDI \/ b.isolationPairs[run.start] = NoIndex
                    THEN Append(isolatingRunSeqs,
                                isolatingRunSeq(b, paragraph,
                                                seqRunsFrom(b, levelRuns, runIdx, << run >>)))
                    ELSE isolatingRunSeqs)

\* 3.3.4 Resolving Weak Types, for one isolating run sequence.  seqIndices[si + 1]
\* is the source's seqIndices[si].
\*
\* for (sj = from; 0 <= sj < seqIndices.length && (charTypes[seqIndices[sj]] & types); sj += step)
\*   changeCharType(seqIndices[sj], type)
RECURSIVE changeWhile(_, _, _, _, _, _)
changeWhile(b, seqIndices, sj, step, types, type) ==
  IF sj < 0 \/ sj >= Len(seqIndices) THEN b
  ELSE IF b.charTypes[seqIndices[sj + 1]] \notin types THEN b
  ELSE changeWhile(changeCharType(b, seqIndices[sj + 1], type),
                   seqIndices, sj + step, step, types, type)

\* W1 + 5.2: an NSM takes the type of the first non-BN character before it
\* in the sequence (ON if that is an isolate initiator or PDI), or of sos.
resolveW1(b, seqIndices, sosType) ==
  IF b.charTypeCounts["NSM"] = 0 THEN b
  ELSE ForUp(0, Len(seqIndices) - 1, b,
         LAMBDA bb, si :
           LET i == seqIndices[si + 1]
               before == { sj \in 0..(si - 1) :
                             bb.charTypes[seqIndices[sj + 1]] \notin BN_LIKE_TYPES }
               prevType == IF before = {} THEN sosType
                           ELSE bb.charTypes[seqIndices[SetMax(before) + 1]]
           IN  IF bb.charTypes[i] = "NSM"
                 THEN changeCharType(bb, i,
                        IF prevType \in ISOLATE_INIT_TYPES \cup {"PDI"} THEN "ON" ELSE prevType)
                 ELSE bb)

\* W2: an EN whose first strong type backward (or sos) is AL becomes AN.
resolveW2(b, seqIndices, sosType) ==
  IF b.charTypeCounts["EN"] = 0 THEN b
  ELSE ForUp(0, Len(seqIndices) - 1, b,
         LAMBDA bb, si :
           LET i == seqIndices[si + 1]
               strong == { sj \in 0..(si - 1) :
                             bb.charTypes[seqIndices[sj + 1]] \in STRONG_TYPES }
               prevCharType == IF strong = {} THEN sosType
                               ELSE bb.charTypes[seqIndices[SetMax(strong) + 1]]
           IN  IF bb.charTypes[i] = "EN" /\ prevCharType \in STRONG_TYPES
                                         /\ prevCharType = "AL"
                 THEN changeCharType(bb, i, "AN")
                 ELSE bb)

\* W3: every AL becomes R.
resolveW3(b, seqIndices) ==
  IF b.charTypeCounts["AL"] = 0 THEN b
  ELSE ForUp(0, Len(seqIndices) - 1, b,
         LAMBDA bb, si :
           IF bb.charTypes[seqIndices[si + 1]] = "AL"
             THEN changeCharType(bb, seqIndices[si + 1], "R")
             ELSE bb)

\* W4: a single ES between two ENs becomes EN; a single CS between two
\* numbers of the same type becomes that type.  prevType and nextType are
\* the types the scanning loops stop at: the nearest that is not BN-like,
\* or that of the first (last) character of the sequence when all are.
resolveW4(b, seqIndices) ==
  IF b.charTypeCounts["ES"] = 0 /\ b.charTypeCounts["CS"] = 0 THEN b
  ELSE ForUp(1, Len(seqIndices) - 2, b,
         LAMBDA bb, si :
           LET i == seqIndices[si + 1]
               before == { sj \in 0..(si - 1) :
                             bb.charTypes[seqIndices[sj + 1]] \notin BN_LIKE_TYPES }
               after == { sj \in (si + 1)..(Len(seqIndices) - 1) :
                            bb.charTypes[seqIndices[sj + 1]] \notin BN_LIKE_TYPES }
               prevType == bb.charTypes[seqIndices[(IF before = {} THEN 0
                                                    ELSE SetMax(before)) + 1]]
               nextType == bb.charTypes[seqIndices[(IF after = {} THEN Len(seqIndices) - 1
                                                    ELSE SetMin(after)) + 1]]
           IN  IF /\ bb.charTypes[i] \in {"ES", "CS"}
                  /\ prevType = nextType
                  /\ IF bb.charTypes[i] = "ES" THEN prevType = "EN"
                     ELSE prevType \in {"EN", "AN"}
                 THEN changeCharType(bb, i, prevType)
                 ELSE bb)

\* W5: the ETs (and BN-likes) adjacent to an EN become EN.
resolveW5(b, seqIndices) ==
  IF b.charTypeCounts["EN"] = 0 THEN b
  ELSE ForUp(0, Len(seqIndices) - 1, b,
         LAMBDA bb, si :
           IF bb.charTypes[seqIndices[si + 1]] = "EN"
             THEN changeWhile(
                    changeWhile(bb, seqIndices, si - 1, -1, {"ET"} \cup BN_LIKE_TYPES, "EN"),
                    seqIndices, si + 1, 1, {"ET"} \cup BN_LIKE_TYPES, "EN")
             ELSE bb)

\* W6: the remaining separators and terminators become ON, and with them the
\* BN-likes next to them (5.2).
resolveW6(b, seqIndices) ==
  IF b.charTypeCounts["ET"] = 0 /\ b.charTypeCounts["ES"] = 0 /\ b.charTypeCounts["CS"] = 0
    THEN b
  ELSE ForUp(0, Len(seqIndices) - 1, b,
         LAMBDA bb, si :
           IF bb.charTypes[seqIndices[si + 1]] \in {"ET", "ES", "CS"}
             THEN changeWhile(
                    changeWhile(changeCharType(bb, seqIndices[si + 1], "ON"),
                                seqIndices, si - 1, -1, BN_LIKE_TYPES, "ON"),
                    seqIndices, si + 1, 1, BN_LIKE_TYPES, "ON")
             ELSE bb)

\* W7: an EN whose first strong type backward (or sos) is L becomes L.
resolveW7(b, seqIndices, sosType) ==
  IF b.charTypeCounts["EN"] = 0 THEN b
  ELSE ForUp(0, Len(seqIndices) - 1, [b |-> b, prevStrongType |-> sosType],
         LAMBDA s, si :
           LET i == seqIndices[si + 1]
               type == s.b.charTypes[i]
           IN  IF type = "EN"
                 THEN IF s.prevStrongType = "L"
                        THEN [s EXCEPT !.b = changeCharType(s.b, i, "L")]
                        ELSE s
               ELSE IF type \in STRONG_TYPES THEN [s EXCEPT !.prevStrongType = type]
               ELSE s).b

resolveWeakTypes(b, seq) ==
  resolveW7(
    resolveW6(
      resolveW5(
        resolveW4(
          resolveW3(
            resolveW2(
              resolveW1(b, seq.seqIndices, seq.sosType),
              seq.seqIndices, seq.sosType),
            seq.seqIndices),
          seq.seqIndices),
        seq.seqIndices),
      seq.seqIndices),
    seq.seqIndices, seq.sosType)

\* 3.3.5 Resolving Neutral and Isolate Formatting Types
R_TYPES_FOR_N_STEPS == {"R", "EN", "AN"}
STRONG_TYPES_FOR_N_STEPS == R_TYPES_FOR_N_STEPS \cup {"L"}

getEmbedDirection(b, i) == IF b.embedLevels[i] % 2 = 1 THEN "R" ELSE "L"

\* BD16: the bracket pairs of the sequence, as pairs of indices into
\* seqIndices, sorted by the opening bracket.  A character counts as a
\* bracket only while its type is still a neutral or isolate type.
bracketPairsOf(string, b, seqIndices) ==
  LET found ==
        ForUp(0, Len(seqIndices) - 1,
              [openerStack |-> << >>, bracketPairs |-> << >>, stopped |-> FALSE],
              LAMBDA s, si :
                LET char == string[seqIndices[si + 1] + 1]
                    oppositeBracket == closingToOpeningBracket(char)
                    matching ==
                      { k \in 1..Len(s.openerStack) :
                          LET stackChar == s.openerStack[k].char
                          IN  \/ stackChar = oppositeBracket
                              \/ stackChar = closingToOpeningBracket(getCanonicalBracket(char))
                              \/ openingToClosingBracket(getCanonicalBracket(stackChar)) = char }
                IN  IF s.stopped \/ b.charTypes[seqIndices[si + 1]] \notin NEUTRAL_ISOLATE_TYPES
                      THEN s
                    ELSE IF openingToClosingBracket(char) # NoChar
                      THEN IF Len(s.openerStack) < 63
                             THEN [s EXCEPT !.openerStack =
                                     Append(@, [char |-> char, seqIndex |-> si])]
                             ELSE [s EXCEPT !.stopped = TRUE]
                    ELSE IF oppositeBracket # NoChar /\ matching # {}
                      THEN LET k == SetMax(matching)
                           IN  [s EXCEPT !.bracketPairs =
                                            Append(@, << s.openerStack[k].seqIndex, si >>),
                                         !.openerStack = SubSeq(@, 1, k - 1)]
                    ELSE s).bracketPairs
      rank(p) == Cardinality({ q \in DOMAIN found : found[q][1] < found[p][1] })
  IN  [n \in 1..Len(found) |-> found[CHOOSE p \in DOMAIN found : rank(p) = n - 1]]

\* The first character after seqIndices[from] that is not BN-like takes
\* useStrongType if its original type is NSM.
nsmAfterBracket(string, b, seqIndices, from, useStrongType) ==
  LET after == { si \in (from + 1)..(Len(seqIndices) - 1) :
                   b.charTypes[seqIndices[si + 1]] \notin BN_LIKE_TYPES }
      i == seqIndices[SetMin(after) + 1]
  IN  IF after # {} /\ getBidiCharType(string[i + 1]) = "NSM"
        THEN [b EXCEPT !.charTypes[i] = useStrongType]
        ELSE b

\* N0 for one bracket pair
resolveBracketPair(string, b, seqIndices, sosType, pair) ==
  LET openSeqIdx == pair[1]
      closeSeqIdx == pair[2]
      lr(i) == IF b.charTypes[i] \in R_TYPES_FOR_N_STEPS THEN "R" ELSE "L"
      inside == { si \in (openSeqIdx + 1)..(closeSeqIdx - 1) :
                    b.charTypes[seqIndices[si + 1]] \in STRONG_TYPES_FOR_N_STEPS }
      matching == { si \in inside :
                      lr(seqIndices[si + 1]) = getEmbedDirection(b, seqIndices[si + 1]) }
      foundStrongType == inside # {}
      before == { si \in 0..(openSeqIdx - 1) :
                    b.charTypes[seqIndices[si + 1]] \in STRONG_TYPES_FOR_N_STEPS }
      context == LET i == seqIndices[SetMax(before) + 1]
                 IN  IF lr(i) # getEmbedDirection(b, i) THEN lr(i)
                     ELSE getEmbedDirection(b, i)
      useStrongType ==
        IF matching # {} THEN lr(seqIndices[SetMin(matching) + 1])
        ELSE IF foundStrongType THEN (IF before = {} THEN sosType ELSE context)
        ELSE NoType
      b1 == [b EXCEPT !.charTypes[seqIndices[openSeqIdx + 1]] = useStrongType,
                      !.charTypes[seqIndices[closeSeqIdx + 1]] = useStrongType]
      b2 == IF useStrongType # getEmbedDirection(b, seqIndices[openSeqIdx + 1])
              THEN nsmAfterBracket(string, b1, seqIndices, openSeqIdx, useStrongType)
              ELSE b1
      b3 == IF useStrongType # getEmbedDirection(b, seqIndices[closeSeqIdx + 1])
              THEN nsmAfterBracket(string, b2, seqIndices, closeSeqIdx, useStrongType)
              ELSE b2
  IN  IF useStrongType # NoType THEN b3 ELSE b

\* N1, N2: a run of NIs (with the BN-likes next to it) takes the direction
\* of the strong text around it when both sides agree, and the embedding
\* direction otherwise.
RECURSIVE resolveNeutralRuns(_, _, _, _, _)
resolveNeutralRuns(b, seqIndices, sosType, eosType, si) ==
  IF si >= Len(seqIndices) THEN b
  ELSE IF b.charTypes[seqIndices[si + 1]] \notin NEUTRAL_ISOLATE_TYPES
    THEN resolveNeutralRuns(b, seqIndices, sosType, eosType, si + 1)
  ELSE
    LET rtype(sj) == IF b.charTypes[seqIndices[sj + 1]] \in R_TYPES_FOR_N_STEPS
                       THEN "R" ELSE "L"
        before == { sj \in 0..(si - 1) :
                      b.charTypes[seqIndices[sj + 1]] \notin BN_LIKE_TYPES }
        niRunStart == IF before = {} THEN 0
                      ELSE IF SetMax(before) = si - 1 THEN si
                      ELSE SetMax(before) + 1
        prevType == IF before = {} THEN sosType ELSE rtype(SetMax(before))
        after == { sj \in (si + 1)..(Len(seqIndices) - 1) :
                     b.charTypes[seqIndices[sj + 1]]
                       \notin (NEUTRAL_ISOLATE_TYPES \cup BN_LIKE_TYPES) }
        niRunEnd == IF after = {} THEN Len(seqIndices) - 1 ELSE SetMin(after) - 1
        nextType == IF after = {} THEN eosType ELSE rtype(SetMin(after))
        b1 == ForUp(niRunStart, niRunEnd, b,
                    LAMBDA bb, sj :
                      [bb EXCEPT !.charTypes[seqIndices[sj + 1]] =
                         IF prevType = nextType THEN prevType
                         ELSE getEmbedDirection(b, seqIndices[sj + 1])])
    IN  resolveNeutralRuns(b1, seqIndices, sosType, eosType, niRunEnd + 1)

resolveNeutralTypes(string, b, seq) ==
  IF b.charTypeCounts["NI"] = 0 THEN b
  ELSE LET bracketPairs == bracketPairsOf(string, b, seq.seqIndices)
           b1 == ForUp(1, Len(bracketPairs), b,
                       LAMBDA bb, pairIdx :
                         resolveBracketPair(string, bb, seq.seqIndices, seq.sosType,
                                            bracketPairs[pairIdx]))
       IN  resolveNeutralRuns(b1, seq.seqIndices, seq.sosType, seq.eosType, 0)

\* A slip: an odd level is raised by two.
raisedLevelByTwo(level, type) ==
  IF level % 2 = 1
    THEN IF type \in {"L", "EN", "AN"} THEN level + 2 ELSE level
  ELSE IF type = "R" THEN level + 1
  ELSE IF type \in {"AN", "EN"} THEN level + 2
  ELSE level

\* 3.3.6 I1 - I2: the level of a character of the given type
raisedLevel(level, type) ==
  IF level % 2 = 1
    THEN IF type \in {"L", "EN", "AN"} THEN level + 1 ELSE level
  ELSE IF type = "R" THEN level + 1
  ELSE IF type \in {"AN", "EN"} THEN level + 2
  ELSE level

\* 3.3.6 Resolving Implicit Levels (I1, I2), 5.2 and 3.4 L1 for the
\* character at i
implicitLevelOf(string, b, i, paragraph) ==
  LET level == b.embedLevels[i]
      type == b.charTypes[i]
      raised == raisedLevel(level, type)
      levels1 == [b.embedLevels EXCEPT ![i] = raised % 256]
      levels2 == IF type \in BN_LIKE_TYPES
                   THEN [levels1 EXCEPT ![i] = IF i = 0 THEN paragraph.level
                                               ELSE levels1[i - 1]]
                   ELSE levels1
      kept == { j \in 0..i : getBidiCharType(string[j + 1]) \notin TRAILING_TYPES }
      from == IF kept = {} THEN 0 ELSE SetMax(kept) + 1
  IN  [b EXCEPT !.embedLevels =
         IF i = paragraph.end \/ getBidiCharType(string[i + 1]) \in {"S", "B"}
           THEN [j \in DOMAIN levels2 |->
                   IF from <= j /\ j <= i THEN paragraph.level ELSE levels2[j]]
           ELSE levels2]

\* The body of the loop over the paragraphs
resolveParagraph(string, b, paragraph) ==
  LET b1 == explicitLevels(b, Len(string), paragraph)
      isolatingRunSeqs == isolatingRunSeqsOf(b1, paragraph)
      b2 == ForUp(1, Len(isolatingRunSeqs), b1,
                  LAMBDA bb, seqIdx :
                    resolveNeutralTypes(string,
                                        resolveWeakTypes(bb, isolatingRunSeqs[seqIdx]),
                                        isolatingRunSeqs[seqIdx]))
  IN  ForUp(paragraph.start, paragraph.end, b2,
            LAMBDA bb, i : implicitLevelOf(string, bb, i, paragraph))

\* getEmbeddingLevels(string, baseDirection)
getEmbeddingLevels(string, baseDirection) ==
  LET length == Len(string)
      charTypes == [i \in 0..(length - 1) |-> getBidiCharType(string[i + 1])]
      paragraphs == splitParagraphs(charTypes, length, baseDirection)
      b0 == [charTypes |-> charTypes,
             embedLevels |-> [i \in 0..(length - 1) |-> 0],
             isolationPairs |-> [i \in 0..(length - 1) |-> NoIndex],
             charTypeCounts |-> NoCounts]
      b1 == ForUp(1, Len(paragraphs), b0,
                  LAMBDA bb, paraIdx : resolveParagraph(string, bb, paragraphs[paraIdx]))
  IN  [levels |-> b1.embedLevels, paragraphs |-> paragraphs]

\* The steps of 3.3.2 that getEmbeddingLevels makes, over all the paragraphs
statusStackSteps(string, baseDirection) ==
  LET length == Len(string)
      charTypes == [i \in 0..(length - 1) |-> getBidiCharType(string[i + 1])]
      paragraphs == splitParagraphs(charTypes, length, baseDirection)
      b0 == [charTypes |-> charTypes,
             embedLevels |-> [i \in 0..(length - 1) |-> 0],
             isolationPairs |-> [i \in 0..(length - 1) |-> NoIndex],
             charTypeCounts |-> NoCounts]
  IN  ForUp(1, Len(paragraphs), [b |-> b0, steps |-> << >>],
            LAMBDA acc, paraIdx :
              [b |-> resolveParagraph(string, acc.b, paragraphs[paraIdx]),
               steps |-> acc.steps \o explicitSteps(acc.b, length, paragraphs[paraIdx])]).steps

(***************************************************************************)
(* bidi: getReorderSegments and getReorderedIndices                        *)
(***************************************************************************)
\* A start or end argument is << >> when omitted and << n >> when given.
\*
\* The segments of one paragraph.  lineLevels is the slice of levels from
\* lineStart to lineEnd, indexed from 0; a write past its end is dropped.
reorderSegmentsOf(string, levels, paragraph, start, end) ==
  LET lineStart == Max(start, paragraph.start)
      lineEnd == Min(end, paragraph.end)
      slice == [k \in 0..(lineEnd - lineStart) |-> levels[lineStart + k]]
      kept == { i \in lineStart..lineEnd :
                  getBidiCharType(string[i + 1]) \notin TRAILING_TYPES }
      from == IF kept = {} THEN lineStart ELSE SetMax(kept) + 1
      \* 3.4 L1.4
      lineLevels == [k \in DOMAIN slice |->
                       IF from <= k /\ k <= lineEnd THEN paragraph.level ELSE slice[k]]
      n == lineEnd - lineStart + 1
      Infinity == 256
      bounds == ForUp(0, n - 1, [maxLevel |-> paragraph.level, minOddLevel |-> Infinity],
                      LAMBDA m, i :
                        [maxLevel |-> IF lineLevels[i] > m.maxLevel THEN lineLevels[i]
                                      ELSE m.maxLevel,
                         minOddLevel |-> IF lineLevels[i] < m.minOddLevel
                                           THEN (IF lineLevels[i] % 2 = 1 THEN lineLevels[i]
                                                 ELSE lineLevels[i] + 1)
                                           ELSE m.minOddLevel])
      \* the runs of levels >= lvl that are longer than one character
      runs(lvl) ==
        ForUp(0, n - 1, << >>,
              LAMBDA segs, i :
                IF lineLevels[i] >= lvl /\ (i = 0 \/ lineLevels[i - 1] < lvl)
                  THEN LET below == { k \in (i + 1)..(n - 1) : lineLevels[k] < lvl }
                           last == IF below = {} THEN n - 1 ELSE SetMin(below) - 1
                       IN  IF last > i THEN Append(segs, << i + start, last + start >>)
                           ELSE segs
                  ELSE segs)
  IN  IF lineStart < lineEnd
        THEN ForDown(bounds.maxLevel, bounds.minOddLevel, << >>,
                     LAMBDA segs, lvl : segs \o runs(lvl))
        ELSE << >>

\* getReorderSegments(string, embeddingLevelsResult, start, end)
getReorderSegments(string, embeddingLevelsResult, start, end) ==
  LET strLen == Len(string)
      start1 == Max(0, IF start = << >> THEN 0 ELSE start[1])
      end1 == Min(strLen - 1, IF end = << >> THEN strLen - 1 ELSE end[1])
  IN  ForUp(1, Len(embeddingLevelsResult.paragraphs), << >>,
            LAMBDA segments, p :
              segments \o reorderSegmentsOf(string, embeddingLevelsResult.levels,
                                            embeddingLevelsResult.paragraphs[p],
                                            start1, end1))

\* getReorderedIndices(string, embedLevelsResult, start, end): the indices
\* 0..(length - 1), each segment reversed in turn
getReorderedIndices(string, embedLevelsResult, start, end) ==
  LET segments == getReorderSegments(string, embedLevelsResult, start, end)
  IN  ForUp(1, Len(segments), [i \in 0..(Len(string) - 1) |-> i],
            LAMBDA indices, k :
              LET segStart == segments[k][1]
                  segEnd == segments[k][2]
              IN  [i \in DOMAIN indices |->
                     IF segStart <= i /\ i <= segEnd
                       THEN indices[segStart + (segEnd - i)]
                       ELSE indices[i]])

(***************************************************************************)
(* SpecBidi: getEmbeddingLevels, getReorderSegments and                    *)
(* getReorderedIndices applied to bounded strings                          *)
(***************************************************************************)
LatinLetters == {97}
HebrewLetters == {1488}
\* One character or more of every bidi type
BidiChars == LatinLetters \cup HebrewLetters \cup
             {1575, 49, 43, 36, 1633, 44, 10, 9, 32, 33, 40, 41, 173, 768,
              8237, 8238, 8234, 8235, 8236, 8294, 8295, 8296, 8297}
CoreChars == LatinLetters \cup HebrewLetters \cup {49, 32, 10, 40, 41}
IsolateChars == LatinLetters \cup HebrewLetters \cup {8295, 8297}

StringsOver(chars, maxLen) == UNION { [1..n -> chars] : n \in 0..maxLen }
\* depth embedding initiators, RLE and LRE in turn, and then one character
NestedString(depth, char) ==
  [i \in 1..(depth + 1) |-> IF i = depth + 1 THEN char
                            ELSE IF i % 2 = 1 THEN 8235 ELSE 8234]
\* Embeddings nested to the maximum depth, one less and one more
DeepStrings == { NestedString(d, c) : d \in (MAX_DEPTH - 1)..(MAX_DEPTH + 1),
                                      c \in LatinLetters \cup HebrewLetters \cup {49} }
\* The explicit formatting characters LRE, RLE, PDF, RLO, RLI, FSI and PDI, and
\* a letter
FormatChars == LatinLetters \cup {8234, 8235, 8236, 8238, 8295, 8296, 8297}
\* Embeddings nested to the maximum depth or one less, an initiator that
\* overflows or not, and then isolate initiators, PDI and PDF
DeepFormatStrings ==
  { NestedString(d, c) \o tail : d \in {MAX_DEPTH - 1, MAX_DEPTH}, c \in {8235, 8295},
                                 tail \in StringsOver({8295, 8297, 8236}, MaxLenTail) }
BidiStrings == StringsOver(BidiChars, MaxLenAll)
                 \cup StringsOver(CoreChars, MaxLenCore)
                 \cup StringsOver(IsolateChars, MaxLenIsolate)
                 \cup StringsOver(FormatChars, MaxLenFormat)
                 \cup DeepStrings
                 \cup DeepFormatStrings

BidiInit ==
  /\ bidiString \in BidiStrings
  /\ bidiDirection \in {"ltr", "rtl", "auto"}
  /\ bidiResult = [levels |-> << >>, paragraphs |-> << >>]
  /\ bidiSegments = << >>
  /\ bidiIndices = << >>
  /\ bidiPc = "input"
  /\ SysIdle
  /\ TexIdle
  /\ OthersIdle

BidiLevels ==
  /\ bidiPc = "input"
  /\ bidiResult' = getEmbeddingLevels(bidiString, bidiDirection)
  /\ bidiPc' = "levels"
  /\ UNCHANGED << bidiString, bidiDirection, bidiSegments, bidiIndices, sysVars, texVars, layout, component, rpc, sdf >>

BidiSegments ==
  /\ bidiPc = "levels"
  /\ bidiSegments' = getReorderSegments(bidiString, bidiResult, << >>, << >>)
  /\ bidiPc' = "segments"
  /\ UNCHANGED << bidiString, bidiDirection, bidiResult, bidiIndices, sysVars, texVars, layout, component, rpc, sdf >>

BidiIndices ==
  /\ bidiPc = "segments"
  /\ bidiIndices' = getReorderedIndices(bidiString, bidiResult, << >>, << >>)
  /\ bidiPc' = "indices"
  /\ UNCHANGED << bidiString, bidiDirection, bidiResult, bidiSegments, sysVars, texVars, layout, component, rpc, sdf >>

BidiNext == BidiLevels \/ BidiSegments \/ BidiIndices

SpecBidi == BidiInit /\ [][BidiNext]_vars

\* getEmbeddingLevels has returned
LevelsDone == bidiPc \in {"levels", "segments", "indices"}

TypeAt(i) == getBidiCharType(bidiString[i + 1])

\* C8: levels has one entry per character of the string; the paragraphs are
\* in ascending order, do not overlap, cover every index exactly once, and
\* each ends at a character of type B or at the end of the string.
C8_LevelsAndParagraphs ==
  LevelsDone =>
    LET n == Len(bidiString)
        paragraphs == bidiResult.paragraphs
    IN  /\ DOMAIN bidiResult.levels = 0..(n - 1)
        /\ \A p \in 1..(Len(paragraphs) - 1) : paragraphs[p].end < paragraphs[p + 1].start
        /\ \A i \in 0..(n - 1) :
             Cardinality({ p \in DOMAIN paragraphs :
                             paragraphs[p].start <= i /\ i <= paragraphs[p].end }) = 1
        /\ \A p \in DOMAIN paragraphs :
             /\ 0 <= paragraphs[p].start /\ paragraphs[p].start <= paragraphs[p].end
             /\ paragraphs[p].end <= n - 1
             /\ TypeAt(paragraphs[p].end) = "B" \/ paragraphs[p].end = n - 1

\* A string of three paragraphs, two that end at their separator and a last
\* one that ends with the string.
C8_Witness ==
  /\ LevelsDone
  /\ Len(bidiResult.paragraphs) = 3
  /\ TypeAt(Len(bidiString) - 1) # "B"

\* C9 as stated: the empty string yields empty levels and exactly one
\* paragraph, of zero length.
C9_EmptyStringOneParagraph ==
  (LevelsDone /\ bidiString = << >>) =>
    /\ DOMAIN bidiResult.levels = {}
    /\ Len(bidiResult.paragraphs) = 1
    /\ bidiResult.paragraphs[1].end < bidiResult.paragraphs[1].start

\* C9, amended: the empty string yields empty levels and no paragraph at all.
C9_EmptyStringNoParagraph ==
  (LevelsDone /\ bidiString = << >>) =>
    /\ DOMAIN bidiResult.levels = {}
    /\ bidiResult.paragraphs = << >>

C9_Witness == bidiPc = "levels" /\ bidiString = << >>

\* The string is a Latin letters, RLI, h Hebrew letters, PDI, Latin letters.
IsolatedHebrew(a, h) ==
  LET n == Len(bidiString)
  IN  /\ a >= 1 /\ h >= 1 /\ a + h + 2 < n
      /\ \A i \in 0..(n - 1) :
           IF i = a THEN TypeAt(i) = "RLI"
           ELSE IF i = a + h + 1 THEN TypeAt(i) = "PDI"
           ELSE IF a < i /\ i <= a + h THEN bidiString[i + 1] \in HebrewLetters
           ELSE bidiString[i + 1] \in LatinLetters

\* getReorderedIndices reversed the span from..to and nothing else
ReversedOnly(from, to) ==
  \A i \in 0..(Len(bidiString) - 1) :
    bidiIndices[i] = IF from <= i /\ i <= to THEN from + (to - i) ELSE i

\* C10 as stated: with automatic base direction the Hebrew letters get level
\* 2 or higher, the Latin letters level 0, and reordering reverses only the
\* Hebrew span.
C10_IsolatedHebrewLevelTwo ==
  \A a, h \in 1..Len(bidiString) :
    (bidiPc = "indices" /\ bidiDirection = "auto" /\ IsolatedHebrew(a, h)) =>
      /\ \A i \in 0..(Len(bidiString) - 1) :
           IF a < i /\ i <= a + h THEN bidiResult.levels[i] >= 2
           ELSE IF i = a \/ i = a + h + 1 THEN TRUE
           ELSE bidiResult.levels[i] = 0
      /\ ReversedOnly(a + 1, a + h)

\* C10, amended: the Hebrew letters get level 1, the Latin letters, the RLI
\* and the PDI level 0; the reorder segments are the Hebrew span alone when
\* it holds two letters or more and none otherwise, so that reordering
\* reverses only the Hebrew span.
C10_IsolatedHebrewLevelOne ==
  \A a, h \in 1..Len(bidiString) :
    (bidiPc = "indices" /\ bidiDirection = "auto" /\ IsolatedHebrew(a, h)) =>
      /\ \A i \in 0..(Len(bidiString) - 1) :
           bidiResult.levels[i] = IF a < i /\ i <= a + h THEN 1 ELSE 0
      /\ bidiSegments = IF h >= 2 THEN << << a + 1, a + h >> >> ELSE << >>
      /\ ReversedOnly(a + 1, a + h)

\* Two Hebrew letters isolated between Latin letters have been reordered.
C10_Witness ==
  /\ bidiPc = "indices"
  /\ bidiDirection = "auto"
  /\ \E a \in 1..Len(bidiString) : IsolatedHebrew(a, 2)
  /\ bidiSegments # << >>

\* C11 as stated: every resolved level lies in 0..125 (MAX_DEPTH).
C11_LevelsAtMostMaxDepth ==
  LevelsDone =>
    \A i \in DOMAIN bidiResult.levels : bidiResult.levels[i] \in 0..MAX_DEPTH

\* C11: every resolved level lies in 0..126: the explicit levels stay within
\* 0..MAX_DEPTH and rules I1 and I2 raise a level of 124 or 125 to 126.
C11_LevelsAtMostMaxDepthPlusOne ==
  LevelsDone =>
    \A i \in DOMAIN bidiResult.levels : bidiResult.levels[i] \in 0..(MAX_DEPTH + 1)

\* A letter or digit inside the deepest embeddings has been resolved to
\* level 126.
C11_Witness ==
  /\ LevelsDone
  /\ bidiString \in DeepStrings
  /\ bidiResult.levels[Len(bidiString) - 1] = MAX_DEPTH + 1

\* What C19 describes for the part lineStart..lineEnd of one paragraph: the
\* trailing characters of the part take the paragraph level, and for every
\* level from the highest down to the lowest odd one the maximal runs of two
\* characters or more at or above that level are listed from left to right,
\* as indices of the string.
StackSteps == statusStackSteps(bidiString, bidiDirection)
HasIsolate(statusStack) == \E k \in DOMAIN statusStack : statusStack[k].isolate
Pop(statusStack) == SubSeq(statusStack, 1, Len(statusStack) - 1)

\* C21: getEmbeddingLevels returns for every string of explicit formatting
\* characters; after every character the status stack has its base entry and
\* no level above MAX_DEPTH; a PDF leaves the stack as it is or pops one entry
\* that is not an isolate's; a PDI met while the stack holds no isolate entry
\* leaves the stack as it is.
C21_StatusStackDiscipline ==
  LevelsDone =>
    LET steps == StackSteps
    IN
    /\ DOMAIN bidiResult.levels = 0..(Len(bidiString) - 1)
    /\ Len(steps) = Len(bidiString)
    /\ \A n \in DOMAIN steps :
         LET step == steps[n]
         IN  /\ Len(step.after) >= 1
             /\ step.after[1] = [level |-> step.level, override |-> NoType,
                                 isolate |-> FALSE, isolInitIndex |-> NoIndex]
             /\ \A k \in DOMAIN step.after : step.after[k].level <= MAX_DEPTH
             /\ step.charType = "PDF" =>
                  \/ step.after = step.before
                  \/ /\ step.after = Pop(step.before)
                     /\ ~step.before[Len(step.before)].isolate
             /\ (step.charType = "PDI" /\ ~HasIsolate(step.before)) =>
                  step.after = step.before

\* Embeddings nested to the maximum depth, an isolate initiator that
\* overflows, its PDI, a PDF that pops an embedding and a stray PDI.
C21_Witness ==
  /\ LevelsDone
  /\ bidiString = NestedString(MAX_DEPTH, 8295) \o << 8297, 8236 >>
  /\ LET steps == StackSteps
     IN  /\ Len(steps[MAX_DEPTH].after) = MAX_DEPTH + 1
         /\ steps[MAX_DEPTH + 1].after = steps[MAX_DEPTH + 1].before
         /\ steps[MAX_DEPTH + 2].after = steps[MAX_DEPTH + 2].before
         /\ steps[MAX_DEPTH + 3].after = Pop(steps[MAX_DEPTH + 3].before)

C19_RunsOfPart(levels, paragraph, lineStart, lineEnd) ==
  LET lastKept == SetMax({lineStart - 1} \cup
                         {k \in lineStart..lineEnd : TypeAt(k) \notin TRAILING_TYPES})
      reset == [i \in lineStart..lineEnd |->
                  IF i > lastKept THEN paragraph.level ELSE levels[i]]
      maxLevel == SetMax({paragraph.level} \cup {reset[i] : i \in lineStart..lineEnd})
      minOddLevel == SetMin({2 * (reset[i] \div 2) + 1 : i \in lineStart..lineEnd})
      runsAt(lvl) ==
        ForUp(lineStart, lineEnd, << >>,
              LAMBDA segs, a :
                IF reset[a] >= lvl /\ (a = lineStart \/ reset[a - 1] < lvl)
                  THEN LET c == SetMin({k \in a..lineEnd :
                                          k = lineEnd \/ reset[k + 1] < lvl})
                       IN  IF a < c THEN Append(segs, << a, c >>) ELSE segs
                  ELSE segs)
  IN  ForDown(maxLevel, minOddLevel, << >>, LAMBDA segs, lvl : segs \o runsAt(lvl))

\* C19: getReorderSegments returns, paragraph by paragraph, the runs that
\* C19_RunsOfPart describes (here for the whole string as the range).
C19_SegmentsOfEachParagraph ==
  bidiPc \in {"segments", "indices"} =>
    bidiSegments =
      ForUp(1, Len(bidiResult.paragraphs), << >>,
            LAMBDA segs, p :
              LET paragraph == bidiResult.paragraphs[p]
              IN  IF paragraph.start < paragraph.end
                    THEN segs \o C19_RunsOfPart(bidiResult.levels, paragraph,
                                                paragraph.start, paragraph.end)
                    ELSE segs)

\* C20: every paragraph separator and segment separator, the last character
\* of every paragraph, and the run of trailing characters before each of
\* them inside the paragraph, has the level of its paragraph.
C20_SeparatorsAtParagraphLevel ==
  LevelsDone =>
    \A p \in DOMAIN bidiResult.paragraphs :
      LET paragraph == bidiResult.paragraphs[p]
      IN  \A i \in paragraph.start..paragraph.end :
            (i = paragraph.end \/ TypeAt(i) \in {"S", "B"}) =>
              \A j \in paragraph.start..i :
                (\A k \in j..i : TypeAt(k) \in TRAILING_TYPES) =>
                  bidiResult.levels[j] = paragraph.level

(***************************************************************************)
(* SpecComponent: the troika-text component on its host entity             *)
(***************************************************************************)
\* The component as built in dist/aframe-troika-text.js ("dist", which is
\* also the second registration of src/aframe-troika-text-primitive.js) and
\* as written in src/aframe-troika-text-component.js ("component").
Builds == {"dist", "component"}
TagNames == {"a-entity", "a-troika-text"}
DataValues == {"", "a"}
MaterialAttrs == {"", "color: red"}
COMPONENT_NAME == "troika-text"

\* this.el is entity 0; the entities made by document.createElement and the
\* meshes made by new Text() are numbered by the init call that made them.
ComponentInit(c) ==
  LET n == c.inits + 1
      isPrimitive == c.tagName = "a-troika-text"
  IN  IF c.build = "dist"
        THEN [c EXCEPT !.inits = n,
                       !.children = IF isPrimitive THEN @ ELSE @ \cup {n},
                       !.troikaTextEntity = IF isPrimitive THEN 0 ELSE n,
                       !.troikaTextMesh = n,
                       !.object3DMap = @ \cup {<< IF isPrimitive THEN 0 ELSE n, "mesh", n >>}]
        ELSE [c EXCEPT !.inits = n,
                       !.troikaTextMesh = n,
                       !.object3DMap = @ \cup {<< 0, COMPONENT_NAME, n >>}]

\* update(): the data is copied to the mesh, mesh.sync() is called, and the
\* dist build passes the material attribute down to its sub-entity.
ComponentUpdate(c) ==
  LET c1 == [c EXCEPT !.text = c.data, !.syncs = @ + 1]
      entity == c.troikaTextEntity
  IN  IF c.build = "dist" /\ entity # 0
        THEN [c1 EXCEPT !.material =
                IF c.materialAttr # ""
                  THEN { m \in @ : m[1] # entity } \cup {<< entity, c.materialAttr >>}
                  ELSE { m \in @ : m[1] # entity }]
        ELSE c1

\* remove()
ComponentRemove(c) ==
  LET c1 == [c EXCEPT !.disposed = @ \cup {c.troikaTextMesh}]
  IN  IF c.build = "dist"
        THEN IF c.troikaTextEntity # 0
               THEN [c1 EXCEPT !.children = @ \ {c.troikaTextEntity}]
               ELSE c1
        ELSE [c1 EXCEPT !.object3DMap = { o \in @ : ~(o[1] = 0 /\ o[2] = COMPONENT_NAME) }]

CompInit ==
  /\ \E b \in Builds, t \in TagNames :
       component = [pc |-> "detached", build |-> b, tagName |-> t, data |-> "",
                    materialAttr |-> "", inits |-> 0, updates |-> 0, syncs |-> 0,
                    children |-> {}, object3DMap |-> {}, material |-> {},
                    troikaTextEntity |-> 0, troikaTextMesh |-> 0, text |-> "",
                    disposed |-> {}]
  /\ layout = NoLayout /\ rpc = NoWorker /\ sdf = NoSDF
  /\ SysIdle /\ TexIdle /\ BidiIdle

\* el.setAttribute('troika-text', ...) on an entity without the component:
\* A-Frame calls init() and then update() with the data.
CompAttach ==
  /\ component.pc = "detached"
  /\ component.inits < MaxInits
  /\ \E v \in DataValues :
       component' = [ComponentUpdate(ComponentInit([component EXCEPT !.data = v]))
                       EXCEPT !.pc = "attached"]
  /\ UNCHANGED << sysVars, texVars, bidiVars, layout, rpc, sdf >>

\* el.setAttribute('troika-text', ...) with new data: A-Frame calls update()
CompSetData ==
  /\ component.pc = "attached"
  /\ component.updates < MaxUpdates
  /\ \E v \in DataValues \ {component.data} :
       component' = ComponentUpdate([component EXCEPT !.data = v, !.updates = @ + 1])
  /\ UNCHANGED << sysVars, texVars, bidiVars, layout, rpc, sdf >>

\* el.setAttribute('troika-text-material', ...) or its removal
CompSetMaterial ==
  /\ component.pc # "idle"
  /\ \E m \in MaterialAttrs \ {component.materialAttr} :
       component' = [component EXCEPT !.materialAttr = m]
  /\ UNCHANGED << sysVars, texVars, bidiVars, layout, rpc, sdf >>

\* el.removeAttribute('troika-text'): A-Frame calls remove()
CompDetach ==
  /\ component.pc = "attached"
  /\ component' = [ComponentRemove(component) EXCEPT !.pc = "detached"]
  /\ UNCHANGED << sysVars, texVars, bidiVars, layout, rpc, sdf >>

CompNext == CompAttach \/ CompSetData \/ CompSetMaterial \/ CompDetach

SpecComponent == CompInit /\ [][CompNext]_vars

\* C18: once remove() has run, the host entity has no child entity made by
\* the component and no mesh of the component in its object3DMap.
C18_RemoveUndoesInit ==
  (component.pc = "detached" /\ component.inits > 0) =>
    /\ component.children = {}
    /\ \A o \in component.object3DMap : o[1] # 0

\* F(v), with v computed once
With(v, F(_)) == CHOOSE r \in { F(x) : x \in {v} } : TRUE

\* A for loop over lo..hi of a few steps: Body(s, i) is the state after the
\* step i on the state s.
ForEach(lo, hi, s0, Body(_, _)) ==
  LET f[i \in (lo - 1)..hi] == IF i = lo - 1 THEN s0 ELSE Body(f[i - 1], i)
  IN  IF hi < lo THEN s0 ELSE f[hi]

(***************************************************************************)
(* SpecLayout: the font's glyphs (wrapFontObj, stringToGlyphs)             *)
(***************************************************************************)
\* A text is a sequence of UTF-16 code units; text[i + 1] is text.charAt(i).
\* The font of the model has a glyph for every code point, named by the code
\* point, and one ligature: "fi" becomes the glyph 64257.  Advance widths are
\* in font units and the font size equals unitsPerEm, so that fontSizeMult
\* is 1; the glyphs of the space and of the newline have no outline.
\* Infinity and NaN are two numbers beyond every number the model computes.
INF == 1000000000
NaN == INF + 1
fontObj == [unitsPerEm |-> 120, ascender |-> 100, descender |-> -20]
advanceWidth(glyphIndex) ==
  IF glyphIndex = 10 THEN 0
  ELSE IF glyphIndex \in {32, 102, 105} THEN 60
  ELSE IF glyphIndex = 87 THEN 180
  ELSE 120

\* String.prototype.codePointAt(i); NoChar stands for undefined
codePointAt(text, i) ==
  IF i >= Len(text) THEN NoChar
  ELSE LET hi == text[i + 1]
       IN  IF hi \in 55296..56319 /\ i + 1 < Len(text) /\ text[i + 2] \in 56320..57343
             THEN 65536 + (hi - 55296) * 1024 + (text[i + 2] - 56320)
             ELSE hi
IsAstral(codePoint) == codePoint > 65535

\* stringToGlyphs: one glyph index per code point; the GSUB ligature lookup
\* puts -1 in place of the glyph it swallows.
stringToGlyphs(text) ==
  LET glyphIds ==
        ForEach(0, Len(text) - 1, [ids |-> << >>, skip |-> FALSE],
              LAMBDA s, i :
                IF s.skip THEN [s EXCEPT !.skip = FALSE]
                ELSE [ids |-> Append(s.ids, codePointAt(text, i)),
                      skip |-> IsAstral(codePointAt(text, i))]).ids
  IN  ForEach(1, Len(glyphIds) - 1, glyphIds,
            LAMBDA ids, ci :
              IF ids[ci] = 102 /\ ids[ci + 1] = 105
                THEN [ids EXCEPT ![ci] = 64257, ![ci + 1] = -1]
                ELSE ids)

\* fontObj.forEachGlyph(text, fontSize, 0, callback): the arguments of the
\* calls of callback, in order.  isWhitespace and isEmpty are the values
\* process() computes on the glyph object (a glyph belongs to one character
\* in this font).
forEachGlyph(text) ==
  LET Each(glyphIndices) ==
        ForEach(1, Len(glyphIndices), [calls |-> << >>, glyphX |-> 0, charIndex |-> 0],
              LAMBDA s, k :
                LET Advance(s1) ==
                      [s1 EXCEPT !.charIndex =
                         @ + (IF IsAstral(codePointAt(text, s.charIndex)) THEN 2 ELSE 1)]
                IN  Advance(
                      IF glyphIndices[k] # -1
                        THEN [s EXCEPT
                                !.calls =
                                   Append(@, [glyphObj |-> glyphIndices[k],
                                              glyphX |-> s.glyphX,
                                              charIndex |-> s.charIndex,
                                              width |-> advanceWidth(glyphIndices[k]),
                                              isWhitespace |->
                                                text[s.charIndex + 1] \in {9, 10, 13, 32},
                                              isEmpty |-> glyphIndices[k] \in {10, 32}]),
                                !.glyphX = @ + advanceWidth(glyphIndices[k])]
                        ELSE s)).calls
  IN  Each(stringToGlyphs(text))

\* text.replace(/\r\n/g, '\n').replace(/\r/g, '\n')
normalizeNewlines(text) ==
  ForEach(1, Len(text), << >>,
        LAMBDA out, k :
          IF text[k] = 13
            THEN IF k < Len(text) /\ text[k + 1] = 10 THEN out ELSE Append(out, 10)
            ELSE Append(out, text[k]))

(***************************************************************************)
(* SpecLayout: process() and measure() of the typesetter                   *)
(***************************************************************************)
\* args is the record of the arguments of process() the model varies: text,
\* maxWidth (a number of font units or INF), overflowWrap, whiteSpace,
\* textAlign, includeCaretPositions and direction; fontSize is unitsPerEm,
\* lineHeight is 'normal', and letterSpacing, textIndent, anchorX and
\* anchorY are 0.  Every number the code computes from these inputs is an
\* integer (the widths make the divisions exact), Infinity or NaN.
TextLine == [glyphs |-> << >>, width |-> 0, isSoftWrapped |-> FALSE]
lineHeight == ((fontObj.ascender - fontObj.descender) * fontObj.unitsPerEm) \div fontObj.unitsPerEm
topBaseline == 0 - fontObj.ascender
caretBottomOffset ==
  ((fontObj.ascender + fontObj.descender) \div 2) - (Min(lineHeight, fontObj.ascender - fontObj.descender) \div 2)

\* The choice of the wrap: "none", a "new" line that starts at the glyph, or
\* a "split" of the current line after the whitespace glyph of index at - 1.
breakPointAlwaysHard(glyphs, overflowWrap) ==
  [kind |-> "new", at |-> 0]
breakPoint(glyphs, overflowWrap) ==
  LET curLineCount == Len(glyphs)
      hits == { i \in 0..(curLineCount - 1) :
                  (i = 0 /\ overflowWrap = "break-word") \/ glyphs[i + 1].isWhitespace }
  IN  IF glyphs[curLineCount].isWhitespace THEN [kind |-> "new", at |-> 0]
      ELSE IF hits = {} THEN [kind |-> "none", at |-> 0]
      ELSE IF SetMax(hits) = 0 /\ overflowWrap = "break-word" THEN [kind |-> "new", at |-> 0]
      ELSE [kind |-> "split", at |-> SetMax(hits) + 1]

\* "If a non-whitespace character overflows the max width, we need to
\* soft-wrap"
overflowsOrFills(s, g, args, curLineCount) ==
  /\ args.whiteSpace # "nowrap"
  /\ args.maxWidth # INF
  /\ ~g.isWhitespace
  /\ g.glyphX + g.width + s.lineXOffset >= args.maxWidth
  /\ curLineCount # 0
overflows(s, g, args, curLineCount) ==
  /\ args.whiteSpace # "nowrap"
  /\ args.maxWidth # INF
  /\ ~g.isWhitespace
  /\ g.glyphX + g.width + s.lineXOffset > args.maxWidth
  /\ curLineCount # 0

\* The callback of forEachGlyph in "Distribute glyphs into lines": s holds
\* lines (the current line is the last), lineXOffset and maxLineWidth.
wrapGlyph(s, g, args) ==
  LET curLineCount == Len(s.lines[Len(s.lines)].glyphs)
      Split(moved, at) ==
        [lines |-> [s.lines EXCEPT
                      ![Len(s.lines)] = [@ EXCEPT !.glyphs = SubSeq(@, 1, at),
                                                  !.isSoftWrapped = TRUE]]
                     \o << [TextLine EXCEPT !.glyphs =
                              [j \in DOMAIN moved |->
                                 [moved[j] EXCEPT !.x = @ - moved[1].x]]] >>,
         lineXOffset |-> s.lineXOffset - moved[1].x,
         maxLineWidth |-> args.maxWidth]
      Break(brk) ==
        CASE brk.kind = "new" ->
               [lines |-> [s.lines EXCEPT ![Len(s.lines)].isSoftWrapped = TRUE]
                            \o << TextLine >>,
                lineXOffset |-> 0 - g.glyphX,
                maxLineWidth |-> args.maxWidth]
          [] brk.kind = "split" ->
               Split(SubSeq(s.lines[Len(s.lines)].glyphs, brk.at + 1, curLineCount), brk.at)
          [] OTHER -> s
      Place(s1) ==
        [s1 EXCEPT
           !.lines = IF args.text[g.charIndex + 1] = 10 THEN Append(@, TextLine) ELSE @,
           !.lines[Len(s1.lines)].glyphs =
              Append(@, [glyphObj |-> g.glyphObj, x |-> g.glyphX + s1.lineXOffset,
                         width |-> g.width, charIndex |-> g.charIndex,
                         isWhitespace |-> g.isWhitespace, isEmpty |-> g.isEmpty]),
           !.lineXOffset = IF args.text[g.charIndex + 1] = 10
                             THEN 0 - (g.glyphX + g.width)
                             ELSE @]
  IN  Place(IF overflows(s, g, args, curLineCount)
              THEN Break(breakPoint(s.lines[Len(s.lines)].glyphs, args.overflowWrap))
              ELSE s)

\* "Calculate width of each line (excluding trailing whitespace) and maximum
\* block width"
maxLineWidthOfLinesOnly(lines, maxLineWidth) ==
  ForEach(1, Len(lines), 0, LAMBDA m, k : Max(m, lines[k].width))
maxLineWidthOf(lines, maxLineWidth) ==
  ForEach(1, Len(lines), maxLineWidth, LAMBDA m, k : Max(m, lines[k].width))
lineWidthOf(glyphs) ==
  LET inked == { i \in DOMAIN glyphs : ~glyphs[i].isWhitespace }
  IN  IF inked = {} THEN 0 ELSE glyphs[SetMax(inked)].x + glyphs[SetMax(inked)].width

\* the lines, their widths and maxLineWidth of the layout of args.text
\* (normalized)
layoutLines(args) ==
  LET Widths(measured, maxLineWidth) ==
        [lines |-> measured, maxLineWidth |-> maxLineWidthOf(measured, maxLineWidth)]
      Measure(s) ==
        Widths([k \in DOMAIN s.lines |->
                  [s.lines[k] EXCEPT !.width = lineWidthOf(s.lines[k].glyphs)]],
               s.maxLineWidth)
      Wrap(glyphCalls) ==
        ForEach(1, Len(glyphCalls),
              [lines |-> << TextLine >>, lineXOffset |-> 0, maxLineWidth |-> 0],
              LAMBDA t, k : wrapGlyph(t, glyphCalls[k], args))
  IN  Measure(Wrap(forEachGlyph(args.text)))

\* "Count trailing whitespaces"
trailingWhitespaceCountOf(glyphs) ==
  LET inked == { i \in DOMAIN glyphs : ~glyphs[i].isWhitespace }
  IN  IF inked = {} THEN Len(glyphs) ELSE Len(glyphs) - SetMax(inked)

\* justifyAdjust = (maxLineWidth - lineWidth) / whitespaceCount
justifyAdjustOfGaps(gap, whitespaceCount) ==
  gap \div (whitespaceCount + 1)
justifyAdjustOf(gap, whitespaceCount) ==
  IF whitespaceCount = 0 THEN (IF gap = 0 THEN NaN ELSE INF)
  ELSE gap \div whitespaceCount

\* "Apply horizontal alignment adjustments" to the glyphs of a line
alignLine(line, textAlign, maxLineWidth) ==
  LET lineGlyphCount == Len(line.glyphs)
      trailingWhitespaceCount == trailingWhitespaceCountOf(line.glyphs)
      whitespaceCount ==
        Cardinality({ i \in 1..(lineGlyphCount - trailingWhitespaceCount) :
                        line.glyphs[i].isWhitespace })
      lineXOffset == IF textAlign = "center" THEN (maxLineWidth - line.width) \div 2
                     ELSE IF textAlign = "right" THEN maxLineWidth - line.width
                     ELSE 0
      justifyAdjust == IF textAlign = "justify" /\ line.isSoftWrapped
                         THEN justifyAdjustOf(maxLineWidth - line.width, whitespaceCount)
                         ELSE 0
      widened(i) == /\ justifyAdjust # 0
                    /\ line.glyphs[i].isWhitespace
                    /\ i <= lineGlyphCount - trailingWhitespaceCount
      justifyOffset(i) == justifyAdjust * Cardinality({ k \in 1..(i - 1) : widened(k) })
  IN  IF justifyAdjust \in {0, NaN} /\ lineXOffset = 0 THEN line.glyphs
      ELSE [i \in DOMAIN line.glyphs |->
              [line.glyphs[i] EXCEPT
                 !.x = @ + lineXOffset
                         + (IF \E k \in 1..(i - 1) : widened(k) THEN justifyOffset(i) ELSE 0),
                 !.width = IF widened(i) THEN @ + justifyAdjust ELSE @]]

\* "Perform bidi range flipping": one flip [start, end] on the glyphs of a
\* line.  left and right stay Infinity and -Infinity when the range holds
\* trailing whitespace only, and the positions become NaN.
flipGlyphs(glyphs, flip, trailingWhitespaceCount) ==
  LET lineGlyphCount == Len(glyphs)
      starts == { i \in 1..lineGlyphCount : glyphs[i].charIndex >= flip[1] }
      startInLine == SetMin(starts)
      beyond == { i \in startInLine..lineGlyphCount : glyphs[i].charIndex > flip[2] }
      endInLine == IF beyond = {} THEN lineGlyphCount + 1 ELSE SetMin(beyond)
      within == { i \in startInLine..(endInLine - 1) :
                    i <= lineGlyphCount - trailingWhitespaceCount }
      hasNaN == within = {} \/ \E i \in within : glyphs[i].x = NaN
      left == SetMin({ glyphs[i].x : i \in within })
      right == SetMax({ glyphs[i].x + glyphs[i].width : i \in within })
  IN  IF starts = {} THEN glyphs
      ELSE [j \in DOMAIN glyphs |->
              IF j \in startInLine..(endInLine - 1)
                THEN [glyphs[j] EXCEPT
                        !.x = IF hasNaN \/ @ = NaN THEN NaN
                              ELSE right - (@ + glyphs[j].width - left)]
                ELSE glyphs[j]]

\* "Assemble final data arrays" for the glyph of index i of a line: the caret
\* positions and the atlas.  No character of the model's alphabet has a
\* mirrored character.
assembleGlyph(s, glyphInfo, levels, lineYOffset, includeCaretPositions) ==
  LET charIndex == glyphInfo.charIndex
      rtl == levels[charIndex] % 2 = 1
      caretRight == IF glyphInfo.x = NaN THEN NaN ELSE glyphInfo.x + glyphInfo.width
      renderable == ~glyphInfo.isWhitespace /\ ~glyphInfo.isEmpty
      Carets(entry, copied, skipped) ==
        [s EXCEPT
           !.caretPositions =
              [k \in DOMAIN @ |->
                 IF k = charIndex + 1 THEN entry
                 ELSE IF k - 1 \in skipped THEN copied
                 ELSE @[k]],
           !.caretWritten = @ \cup {charIndex} \cup skipped,
           !.prevCharIndex = charIndex]
      Generate(s1) ==
        IF renderable /\ glyphInfo.glyphObj \notin DOMAIN s1.atlas.glyphs
          THEN [s1 EXCEPT
                  !.atlas = [glyphs |-> [g \in DOMAIN @.glyphs \cup {glyphInfo.glyphObj} |->
                                           IF g = glyphInfo.glyphObj THEN @.glyphCount
                                           ELSE @.glyphs[g]],
                             glyphCount |-> @.glyphCount + 1],
                  !.newGlyphs = Append(@, glyphInfo.glyphObj)]
          ELSE s1
      Bounds(s2) ==
        IF renderable
          THEN [s2 EXCEPT !.glyphAtlasIndices = Append(@, s2.atlas.glyphs[glyphInfo.glyphObj]),
                          !.glyphBounds = Append(@, << glyphInfo.x, lineYOffset >>)]
          ELSE s2
  IN  Bounds(Generate(
        IF includeCaretPositions
          THEN Carets(<< IF rtl THEN caretRight ELSE glyphInfo.x,
                         IF rtl THEN glyphInfo.x ELSE caretRight,
                         lineYOffset + caretBottomOffset >>,
                      IF s.prevCharIndex = -1 THEN << NaN, NaN, NaN >>
                      ELSE s.caretPositions[s.prevCharIndex + 1],
                      (s.prevCharIndex + 1)..(charIndex - 1))
          ELSE s))

\* lines.forEach((line, lineIndex) => ...) of the block under
\* if (!metricsOnly)
assembleLine(s, line, lineIndex, args, maxLineWidth, bidiLevelsResult) ==
  LET Flip(flips) ==
        ForEach(1, Len(flips), alignLine(line, args.textAlign, maxLineWidth),
              LAMBDA glyphs, fi :
                flipGlyphs(glyphs, flips[fi], trailingWhitespaceCountOf(line.glyphs)))
      Assemble(flipped) ==
        [ForEach(1, Len(flipped), s,
               LAMBDA t, i :
                 assembleGlyph(t, flipped[i], bidiLevelsResult.levels,
                               topBaseline - lineIndex * lineHeight,
                               args.includeCaretPositions))
           EXCEPT !.placed = Append(@, flipped)]
  IN  IF Len(line.glyphs) > 0
        THEN Assemble(Flip(getReorderSegments(args.text, bidiLevelsResult,
                                              << line.glyphs[1].charIndex >>,
                                              << line.glyphs[Len(line.glyphs)].charIndex >>)))
        ELSE [s EXCEPT !.placed = Append(@, << >>)]

\* process(args, callback, metricsOnly): the argument of the callback and the
\* atlas afterwards.  lines, maxLineWidth and placed (the glyphs of each line
\* at their final positions) are not part of the result of the code.
process(args0, atlas, metricsOnly) ==
  LET Metrics(args, wrapped) ==
        [text |-> args.text, lines |-> wrapped.lines, maxLineWidth |-> wrapped.maxLineWidth,
         placed |-> << >>,
         blockBounds |-> << 0, 0 - Len(wrapped.lines) * lineHeight, wrapped.maxLineWidth, 0 >>,
         caretPositions |-> NULL, caretWritten |-> {}, glyphBounds |-> NULL,
         glyphAtlasIndices |-> NULL, newGlyphSDFs |-> NULL, atlas |-> atlas]
      Result(args, wrapped, s1) ==
        [Metrics(args, wrapped) EXCEPT
           !.placed = s1.placed,
           !.caretPositions = IF args.includeCaretPositions THEN s1.caretPositions ELSE NULL,
           !.caretWritten = s1.caretWritten,
           !.glyphBounds = s1.glyphBounds,
           !.glyphAtlasIndices = s1.glyphAtlasIndices,
           !.newGlyphSDFs = IF s1.newGlyphs = << >> THEN NULL ELSE s1.newGlyphs,
           !.atlas = s1.atlas]
      Assemble(args, wrapped, bidiLevelsResult) ==
        ForEach(1, Len(wrapped.lines),
                [caretPositions |-> [k \in 1..Len(args.text) |-> << 0, 0, 0 >>],
                 caretWritten |-> {}, prevCharIndex |-> -1, atlas |-> atlas,
                 newGlyphs |-> << >>, glyphAtlasIndices |-> << >>, glyphBounds |-> << >>,
                 placed |-> << >>],
                LAMBDA t, k : assembleLine(t, wrapped.lines[k], k - 1, args,
                                           wrapped.maxLineWidth, bidiLevelsResult))
      Typeset(args) ==
        With(layoutLines(args),
             LAMBDA wrapped :
               IF metricsOnly THEN Metrics(args, wrapped)
               ELSE With(Assemble(args, wrapped,
                                  getEmbeddingLevels(args.text, args.direction)),
                         LAMBDA s1 : Result(args, wrapped, s1)))
  IN  With([args0 EXCEPT !.text = normalizeNewlines(@)], LAMBDA args : Typeset(args))

\* measure(args, callback): process() with a truthy metricsOnly
measureWithGlyphs(args, atlas) ==
  With(process(args, atlas, FALSE),
       LAMBDA result : [width |-> result.blockBounds[3] - result.blockBounds[1],
                        height |-> result.blockBounds[4] - result.blockBounds[2],
                        atlas |-> result.atlas])
measure(args, atlas) ==
  With(process(args, atlas, TRUE),
       LAMBDA result : [width |-> result.blockBounds[3] - result.blockBounds[1],
                        height |-> result.blockBounds[4] - result.blockBounds[2],
                        atlas |-> result.atlas])

(***************************************************************************)
(* SpecLayout: one process() and one measure() call on the same arguments  *)
(***************************************************************************)
\* a, space, newline, carriage return, f and i (a ligature), the two
\* surrogates of U+1F600, and alef
WrapChars == {97, 32}
LineChars == {97, 32, 10, 1488}
LayoutChars == {97, 32, 10, 13, 102, 105, 55357, 56832, 1488}
WideChars == {105, 32, 87}
UnboundedMode == [maxWidth |-> INF, overflowWrap |-> "normal", whiteSpace |-> "normal"]
WrapModes == {UnboundedMode,
              [maxWidth |-> 180, overflowWrap |-> "normal", whiteSpace |-> "normal"],
              [maxWidth |-> 180, overflowWrap |-> "break-word", whiteSpace |-> "normal"],
              [maxWidth |-> 180, overflowWrap |-> "normal", whiteSpace |-> "nowrap"],
              [maxWidth |-> 420, overflowWrap |-> "normal", whiteSpace |-> "normal"],
              [maxWidth |-> 420, overflowWrap |-> "break-word", whiteSpace |-> "normal"]}
TextAligns == {"left", "center", "right", "justify"}
ArgsOf(texts, modes, textAligns, carets) ==
  { [text |-> text, maxWidth |-> mode.maxWidth, overflowWrap |-> mode.overflowWrap,
     whiteSpace |-> mode.whiteSpace, textAlign |-> textAlign,
     includeCaretPositions |-> caret, direction |-> "auto"] :
      text \in texts, mode \in modes, textAlign \in textAligns, caret \in carets }
\* every mode and alignment on the texts of a and space; the other texts with
\* fewer of them; the texts with the wide glyph W under the narrow maxWidth
LayoutArgs ==
  LET narrow == { mode \in WrapModes : mode.maxWidth # 420 /\ mode.whiteSpace = "normal" }
      others == StringsOver(LineChars, MaxLenLines) \cup StringsOver(LayoutChars, MaxLenChars)
  IN  ArgsOf(StringsOver(WrapChars, MaxLenWrap), WrapModes, TextAligns, BOOLEAN)
        \cup ArgsOf(others, narrow, {"left", "right"}, {TRUE})
        \cup ArgsOf(others, narrow, {"left"}, {FALSE})
        \cup ArgsOf(StringsOver(WideChars, MaxLenWide), narrow \ {UnboundedMode},
                    {"left"}, {FALSE})
EmptyAtlas == [glyphs |-> << >>, glyphCount |-> 0]

LayInit ==
  /\ SysIdle /\ TexIdle /\ BidiIdle
  /\ component = NoComponent /\ rpc = NoWorker /\ sdf = NoSDF
  /\ \E args \in LayoutArgs :
       layout = [pc |-> "ready", args |-> args, atlas |-> EmptyAtlas, done |-> {},
                 result |-> NULL, measured |-> NULL]

\* the worker's process method: the typeset result is kept, the atlas grows
LayProcess ==
  /\ layout.pc = "ready"
  /\ "process" \notin layout.done
  /\ layout' = With(process(layout.args, layout.atlas, FALSE),
                    LAMBDA result :
                      [layout EXCEPT !.result = result, !.atlas = result.atlas,
                                     !.done = @ \cup {"process"}])
  /\ UNCHANGED << sysVars, texVars, bidiVars, component, rpc, sdf >>

\* the worker's measure method
LayMeasure ==
  /\ layout.pc = "ready"
  /\ "measure" \notin layout.done
  /\ layout' = With(measure(layout.args, layout.atlas),
                    LAMBDA result :
                      [layout EXCEPT
                         !.measured = [width |-> result.width, height |-> result.height],
                         !.atlas = result.atlas,
                         !.done = @ \cup {"measure"}])
  /\ UNCHANGED << sysVars, texVars, bidiVars, component, rpc, sdf >>

LayNext == LayProcess \/ LayMeasure
SpecLayout == LayInit /\ [][LayNext]_vars

(***************************************************************************)
(* Claims about process() and measure()                                    *)
(***************************************************************************)
Processed == layout.pc = "ready" /\ "process" \in layout.done
Measured == layout.pc = "ready" /\ "measure" \in layout.done
EndsWithWhitespace(line) ==
  Len(line.glyphs) > 0 /\ line.glyphs[Len(line.glyphs)].isWhitespace

\* C12: with whiteSpace 'normal', overflowWrap 'normal' and a finite maxWidth
\* every line but the first starts directly after a whitespace glyph (the
\* glyph of '\n' is one): no run of non-whitespace glyphs is split, and a
\* word wider than maxWidth stays on its line.
C12_NoSplitInsideWord ==
  (/\ Processed
   /\ layout.args.whiteSpace = "normal"
   /\ layout.args.overflowWrap = "normal"
   /\ layout.args.maxWidth # INF) =>
    \A k \in 2..Len(layout.result.lines) : EndsWithWhitespace(layout.result.lines[k - 1])

\* a word of two glyphs, wider than maxWidth, on one line
C12_Witness ==
  /\ Processed
  /\ layout.args.whiteSpace = "normal"
  /\ layout.args.overflowWrap = "normal"
  /\ layout.args.maxWidth = 180
  /\ layout.args.text = << 97, 97, 32, 97 >>
  /\ Len(layout.result.lines) = 2
  /\ layout.result.lines[1].width > layout.args.maxWidth

HasNoWhitespace(line) ==
  Len(line.glyphs) > 0 /\ \A i \in DOMAIN line.glyphs : ~line.glyphs[i].isWhitespace
RightEdge(glyph) == glyph.x + glyph.width

\* C13: with whiteSpace 'normal', overflowWrap 'break-word' and a finite
\* maxWidth, a non-whitespace glyph that would exceed maxWidth on the line the
\* text before it ends with, when that line holds glyphs and no whitespace,
\* starts a new line at x = 0 and the lines before it are the lines the text
\* before the glyph has on its own; and a line without whitespace ends
\* exactly where the next glyph would exceed maxWidth.
C13_BreakWordBreaksAtTheGlyph ==
  (/\ Processed
   /\ layout.args.whiteSpace = "normal"
   /\ layout.args.overflowWrap = "break-word"
   /\ layout.args.maxWidth # INF) =>
    LET lines == layout.result.lines
    IN  /\ \A k \in DOMAIN lines : \A j \in DOMAIN lines[k].glyphs :
             LET glyph == lines[k].glyphs[j]
                 before == layoutLines([layout.args EXCEPT
                             !.text = SubSeq(layout.result.text, 1, glyph.charIndex)]).lines
                 current == before[Len(before)]
             IN  (/\ ~glyph.isWhitespace
                  /\ HasNoWhitespace(current)
                  /\ RightEdge(current.glyphs[Len(current.glyphs)]) + glyph.width
                       > layout.args.maxWidth)
                   => /\ j = 1
                      /\ glyph.x = 0
                      /\ k = Len(before) + 1
                      /\ \A i \in 1..Len(before) : lines[i].glyphs = before[i].glyphs
        /\ \A k \in 1..(Len(lines) - 1) :
             HasNoWhitespace(lines[k]) =>
               /\ Len(lines[k + 1].glyphs) > 0
               /\ LET glyph == lines[k + 1].glyphs[1]
                      before == layoutLines([layout.args EXCEPT
                                  !.text = SubSeq(layout.result.text, 1, glyph.charIndex)]).lines
                  IN  /\ ~glyph.isWhitespace
                      /\ glyph.x = 0
                      /\ RightEdge(lines[k].glyphs[Len(lines[k].glyphs)]) + glyph.width
                           > layout.args.maxWidth
                      /\ Len(before) = k
                      /\ \A i \in 1..k : before[i].glyphs = lines[i].glyphs

\* three glyphs of a word, broken into three lines of one glyph
C13_Witness ==
  /\ Processed
  /\ layout.args.whiteSpace = "normal"
  /\ layout.args.overflowWrap = "break-word"
  /\ layout.args.maxWidth = 180
  /\ layout.args.text = << 97, 97, 97 >>
  /\ Len(layout.result.lines) = 3
  /\ \A k \in 1..3 : /\ Len(layout.result.lines[k].glyphs) = 1
                     /\ layout.result.lines[k].glyphs[1].x = 0

\* the right edge of the last non-whitespace glyph of a line, 0 without one
NaturalWidth(line) ==
  LET inked == { i \in DOMAIN line.glyphs : ~line.glyphs[i].isWhitespace }
  IN  IF inked = {} THEN 0 ELSE SetMax({ RightEdge(line.glyphs[i]) : i \in inked })
LargestLineWidth(lines) == SetMax({0} \cup { NaturalWidth(lines[k]) : k \in DOMAIN lines })
BlockWidth(result) == result.blockBounds[3] - result.blockBounds[1]
Wrapped(lines) == \E k \in DOMAIN lines : lines[k].isSoftWrapped

\* C14 as stated: the block's width is maxWidth whenever a soft wrap occurred
\* and the largest line width otherwise.
C14_BlockWidthIsMaxWidthAfterWrap ==
  Processed =>
    BlockWidth(layout.result) =
      IF Wrapped(layout.result.lines) THEN layout.args.maxWidth
      ELSE LargestLineWidth(layout.result.lines)

\* C14, amended: once a line was wrapped the block's width is the larger of
\* maxWidth and the largest line width (a line may overflow maxWidth), and
\* it is the largest line width otherwise.
C14_BlockWidthAtLeastMaxWidthAfterWrap ==
  Processed =>
    BlockWidth(layout.result) =
      IF Wrapped(layout.result.lines)
        THEN Max(layout.args.maxWidth, LargestLineWidth(layout.result.lines))
        ELSE LargestLineWidth(layout.result.lines)

\* a soft wrap after a word wider than maxWidth
C14_Witness ==
  /\ Processed
  /\ layout.args.text = << 97, 97, 32, 97 >>
  /\ layout.args.maxWidth = 180
  /\ Wrapped(layout.result.lines)
  /\ LargestLineWidth(layout.result.lines) > layout.args.maxWidth
  /\ BlockWidth(layout.result) = LargestLineWidth(layout.result.lines)

\* the sum of the width increases of the whitespace glyphs of line k
WidthIncreases(result, k) ==
  ForEach(1, Len(result.lines[k].glyphs), 0,
        LAMBDA sum, i :
          IF result.lines[k].glyphs[i].isWhitespace
            THEN sum + (result.placed[k][i].width - result.lines[k].glyphs[i].width)
            ELSE sum)
NonTrailingWhitespaces(line) ==
  { i \in DOMAIN line.glyphs :
      line.glyphs[i].isWhitespace /\ \E j \in (i + 1)..Len(line.glyphs) :
                                       ~line.glyphs[j].isWhitespace }

C16_CaretPositionsCoverTheText ==
  (Processed /\ layout.args.includeCaretPositions) =>
    /\ Len(layout.result.caretPositions) = Len(layout.args.text)
    /\ layout.result.caretWritten = 0..(Len(layout.args.text) - 1)

\* C17: a measure() call generates no SDF and leaves the atlas (its glyphs
\* and its glyphCount) as it was, and the width and height it reports are
\* those of the blockBounds process() reports for the same arguments.
C17_MeasureOnlyMeasures ==
  /\ [][("measure" \notin layout.done /\ "measure" \in layout'.done)
          => layout'.atlas = layout.atlas]_vars
  /\ []((Processed /\ Measured) =>
          /\ layout.measured.width = BlockWidth(layout.result)
          /\ layout.measured.height
               = layout.result.blockBounds[4] - layout.result.blockBounds[2])

\* measure() alone on a text of two words that wraps: the atlas is still
\* empty
C17_Witness ==
  /\ layout.pc = "ready"
  /\ layout.done = {"measure"}
  /\ layout.args.text = << 97, 32, 97 >>
  /\ layout.args.maxWidth = 180
  /\ layout.args.whiteSpace = "normal"
  /\ layout.atlas = EmptyAtlas
  /\ layout.measured = [width |-> 180, height |-> 240]

\* C29: with whiteSpace 'normal', overflowWrap 'break-word' and a finite
\* maxWidth, every line of more than one glyph is at most maxWidth wide.
C29_BreakWordLinesFit ==
  (/\ Processed
   /\ layout.args.whiteSpace = "normal"
   /\ layout.args.overflowWrap = "break-word"
   /\ layout.args.maxWidth # INF) =>
    \A k \in DOMAIN layout.result.lines :
      Len(layout.result.lines[k].glyphs) > 1
        => layout.result.lines[k].width <= layout.args.maxWidth

(***************************************************************************)
(* SpecWorker: defineWorkerModule, callWorker and the worker bootstrap     *)
(***************************************************************************)
\* The worker modules of the program and the worker modules each one names
\* in its dependencies, in order: Thenable, Typr Font Parser, FontProcessor
\* (which depends on the font parser) and TextBuilder (which depends on
\* FontProcessor and Thenable).
WorkerModuleIds == 1..4
ModuleDependencies == << <<>>, <<>>, << 2 >>, << 3, 1 >> >>

MaxModuleCalls == 2    \* calls of module functions made by the main thread

\* what the init function of a module does when the worker runs it
InitOutcomes == {"function", "object", "throws"}
\* what a module's function does when it is called with the args of a call:
\* it returns a value, throws, or returns a thenable that is resolved or
\* rejected later
CallOutcomes == {"return", "throw", "resolve", "reject"}

\* all modules return a function, but for at most one of them
InitChoices ==
  { f \in [WorkerModuleIds -> InitOutcomes] :
      Cardinality({ m \in WorkerModuleIds : f[m] # "function" }) <= 1 }

NotRegistered == "none"
ErrorResult == "error"

\* registerModule(data, callback) of the worker: the modules afterwards, the
\* results the callback was called with, in order, and whether the call
\* threw (the callback of a dependency throws the Error it is handed).
RECURSIVE registerModule(_, _, _, _)
registerModule(modules, init, id, nested) ==
  IF modules[id] # NotRegistered
    THEN [modules |-> modules, results |-> <<>>, threw |-> FALSE]
    ELSE
      LET RegisterDep(s, i) ==
            IF s.threw THEN s
            ELSE With(registerModule(s.modules, init, ModuleDependencies[id][i], TRUE),
                      LAMBDA r : [modules |-> r.modules, threw |-> r.threw])
          deps == ForEach(1, Len(ModuleDependencies[id]),
                          [modules |-> modules, threw |-> FALSE], RegisterDep)
      IN  IF deps.threw \/ init[id] = "throws"
            \* catch (err): callback(err)
            THEN [modules |-> deps.modules, results |-> << ErrorResult >>,
                  threw |-> nested]
            ELSE [modules |-> [deps.modules EXCEPT ![id] = init[id]],
                  results |-> << init[id] >>, threw |-> FALSE]

\* callModule({id, args}, callback) of the worker: the results the callback
\* is called with before callModule returns, and whether the module's
\* function returned a thenable that is still to be settled.
callModule(modules, id, outcome) ==
  LET notFound == modules[id] # "function"
      first == IF notFound THEN << ErrorResult >> ELSE <<>>
  IN  IF notFound
        \* modules[id].value.apply(...) throws a TypeError: callback(err)
        THEN [results |-> first \o << ErrorResult >>, thenable |-> FALSE]
      ELSE IF outcome = "return"
        THEN [results |-> first \o << "result" >>, thenable |-> FALSE]
      ELSE IF outcome = "throw"
        THEN [results |-> first \o << ErrorResult >>, thenable |-> FALSE]
      ELSE [results |-> first, thenable |-> TRUE]

\* the message the worker posts for one call of the callback
ResponseFor(msgId, result) ==
  [messageId |-> msgId, success |-> result # ErrorResult,
   isCallable |-> result = "function"]

RECURSIVE ResponsesFor(_, _)
ResponsesFor(msgId, results) ==
  IF results = <<>> THEN <<>>
  ELSE << ResponseFor(msgId, Head(results)) >>
         \o ResponsesFor(msgId, Tail(results))

\* callWorker(workerId, action, data)
callWorker(r, action, id, outcome) ==
  LET msgId == r._messageId + 1
  IN  [r EXCEPT !._messageId = msgId,
                !.openRequests = @ \cup {msgId},
                !._count = @ + 1,
                !.action = [@ EXCEPT ![msgId] = action],
                !.toWorker = Append(@, [messageId |-> msgId, action |-> action,
                                        id |-> id, outcome |-> outcome])]

WorkerCallIds == 1..(2 * MaxModuleCalls)

WorkerInit ==
  /\ SysIdle /\ TexIdle /\ BidiIdle
  /\ layout = NoLayout /\ component = NoComponent /\ sdf = NoSDF
  /\ \E init \in InitChoices :
       rpc = [pc |-> "run",
              init |-> init,
              \* main thread
              _messageId |-> 0,
              openRequests |-> {},
              _count |-> 0,
              registrationThenable |-> [m \in WorkerModuleIds |-> 0],
              thenable |-> [i \in WorkerCallIds |-> "pending"],
              isCallable |-> [i \in WorkerCallIds |-> FALSE],
              moduleCalls |-> <<>>,
              \* messages in flight
              toWorker |-> <<>>,
              fromWorker |-> <<>>,
              \* worker
              modules |-> [m \in WorkerModuleIds |-> NotRegistered],
              unsettled |-> {},
              \* history
              action |-> [i \in WorkerCallIds |-> "none"],
              handled |-> {},
              responses |-> [i \in WorkerCallIds |-> 0],
              handlerRuns |-> [i \in WorkerCallIds |-> 0],
              settles |-> [i \in WorkerCallIds |-> 0],
              unknownResponses |-> 0]

\* moduleFunc(...args) of the module m: the registration is requested by the
\* first call only; the call waits for registrationThenable
ModuleFunc(m, outcome) ==
  /\ rpc.pc = "run"
  /\ Len(rpc.moduleCalls) < MaxModuleCalls
  /\ LET r1 == IF rpc.registrationThenable[m] = 0
                 THEN [callWorker(rpc, "registerModule", m, outcome)
                         EXCEPT !.registrationThenable[m] = rpc._messageId + 1]
                 ELSE rpc
     IN  rpc' = [r1 EXCEPT !.moduleCalls =
                   Append(@, [id |-> m, outcome |-> outcome, state |-> "waiting"])]
  /\ UNCHANGED << sysVars, texVars, bidiVars, layout, component, sdf >>

\* the callback moduleFunc handed to registrationThenable.then, run once the
\* registration has settled
RegistrationThen(i) ==
  /\ rpc.pc = "run"
  /\ i \in DOMAIN rpc.moduleCalls
  /\ rpc.moduleCalls[i].state = "waiting"
  /\ \A j \in 1..(i - 1) : rpc.moduleCalls[j].id = rpc.moduleCalls[i].id
                             => rpc.moduleCalls[j].state # "waiting"
  /\ LET call == rpc.moduleCalls[i]
         registration == rpc.registrationThenable[call.id]
     IN  /\ rpc.thenable[registration] # "pending"
         /\ rpc' = IF rpc.thenable[registration] = "resolved" /\ rpc.isCallable[registration]
                     THEN [callWorker(rpc, "callModule", call.id, call.outcome)
                             EXCEPT !.moduleCalls[i].state = "called"]
                     ELSE [rpc EXCEPT !.moduleCalls[i].state = "rejected"]
  /\ UNCHANGED << sysVars, texVars, bidiVars, layout, component, sdf >>

\* the worker's handler for all messages
WorkerModuleMessage ==
  /\ rpc.pc = "run"
  /\ rpc.toWorker # <<>>
  /\ LET msg == Head(rpc.toWorker)
         registered == registerModule(rpc.modules, rpc.init, msg.id, FALSE)
         called == callModule(rpc.modules, msg.id, msg.outcome)
         results == IF msg.action = "registerModule"
                      THEN registered.results ELSE called.results
     IN  rpc' = [rpc EXCEPT
                   !.toWorker = Tail(@),
                   !.modules = IF msg.action = "registerModule"
                                 THEN registered.modules ELSE @,
                   !.unsettled = IF msg.action = "callModule" /\ called.thenable
                                   THEN @ \cup {msg} ELSE @,
                   !.fromWorker = @ \o ResponsesFor(msg.messageId, results),
                   !.handled = @ \cup {msg.messageId},
                   !.responses[msg.messageId] = @ + Len(results)]
  /\ UNCHANGED << sysVars, texVars, bidiVars, layout, component, sdf >>

\* the thenable a module's function returned is resolved or rejected:
\* handleResult(result), or callback(rej)
ThenableSettles ==
  /\ rpc.pc = "run"
  /\ \E msg \in rpc.unsettled :
       rpc' = [rpc EXCEPT
                 !.unsettled = @ \ {msg},
                 !.fromWorker = Append(@, ResponseFor(msg.messageId,
                                  IF msg.outcome = "resolve" THEN "result"
                                                             ELSE ErrorResult)),
                 !.responses[msg.messageId] = @ + 1]
  /\ UNCHANGED << sysVars, texVars, bidiVars, layout, component, sdf >>

\* worker.onmessage of getWorker, and the handler callWorker registered
WorkerResponse ==
  /\ rpc.pc = "run"
  /\ rpc.fromWorker # <<>>
  /\ LET response == Head(rpc.fromWorker)
         msgId == response.messageId
     IN  rpc' = IF msgId \notin rpc.openRequests
                  \* throw new Error('WorkerModule response with empty or
                  \* unknown messageId')
                  THEN [rpc EXCEPT !.fromWorker = Tail(@),
                                   !.unknownResponses = @ + 1]
                  ELSE [rpc EXCEPT
                          !.fromWorker = Tail(@),
                          !.openRequests = @ \ {msgId},
                          !._count = @ - 1,
                          !.handlerRuns[msgId] = @ + 1,
                          !.thenable[msgId] =
                             IF @ # "pending" THEN @
                             ELSE IF response.success THEN "resolved" ELSE "rejected",
                          !.settles[msgId] =
                             IF rpc.thenable[msgId] = "pending" THEN @ + 1 ELSE @,
                          !.isCallable[msgId] = response.isCallable]
  /\ UNCHANGED << sysVars, texVars, bidiVars, layout, component, sdf >>

WorkerNext ==
  \/ \E m \in WorkerModuleIds, outcome \in CallOutcomes : ModuleFunc(m, outcome)
  \/ \E i \in 1..MaxModuleCalls : RegistrationThen(i)
  \/ WorkerModuleMessage
  \/ ThenableSettles
  \/ WorkerResponse

SpecWorker == WorkerInit /\ [][WorkerNext]_vars

\* the messages the worker has handled to the end: its handler has run, and
\* the thenable the module's function returned, if any, has settled
Answered ==
  { i \in rpc.handled : \A msg \in rpc.unsettled : msg.messageId # i }

\* C24: every message callWorker posted and the worker has handled to the
\* end has received exactly one response with its messageId (and none has
\* received more than one), no response handler has run twice and no
\* thenable has settled twice, and openRequests._count is the number of
\* handlers registered and is never negative.
C24_ExactlyOneResponse ==
  rpc.pc = "run" =>
    /\ \A i \in 1..rpc._messageId : rpc.responses[i] <= 1
    /\ \A i \in Answered : rpc.responses[i] = 1
    /\ \A i \in 1..rpc._messageId : rpc.handlerRuns[i] <= 1 /\ rpc.settles[i] <= 1
    /\ rpc._count = Cardinality(rpc.openRequests)
    /\ rpc._count >= 0
    /\ rpc.unknownResponses = 0

(***************************************************************************)
(* SpecSDF: createGlyphSegmentsIndex and the path commands of generateSDF  *)
(***************************************************************************)
\* Coordinates are font units and are integers here.  A squared distance is
\* a fraction [n, d] with d > 0, so that the distance to a slanted segment is
\* exact; Math.sqrt is increasing, so a comparison of distances is made on
\* their squares.  Infinity is the fraction 1 / 0, which the comparisons
\* below place above every other fraction.
MaxCoord == 2          \* segment ends are on the grid 0..MaxCoord
MaxSegments == 2       \* segments added one by one with addLineSegment
SegmentCoords == 0..MaxCoord
QueryCoords == (0 - 1)..(MaxCoord + 1)
MaxRadii == {1, 3}

Infinity == [n |-> 1, d |-> 0]
Fraction(n) == [n |-> n, d |-> 1]
\* a < b for two fractions
LessThan(a, b) == a.n * b.d < b.n * a.d
\* Math.sqrt(distSq) <= v and Math.sqrt(distSq) > v
SqrtAtMost(distSq, v) == v >= 0 /\ distSq.n <= v * v * distSq.d
SqrtAbove(distSq, v) == ~ SqrtAtMost(distSq, v)

NewSegment(x0, y0, x1, y1) ==
  [x0 |-> x0, y0 |-> y0, x1 |-> x1, y1 |-> y1,
   minX |-> Min(x0, x1), minY |-> Min(y0, y1),
   maxX |-> Max(x0, x1), maxY |-> Max(y0, y1)]

\* addLineSegment(x0, y0, x1, y1)
addLineSegment(index, x0, y0, x1, y1) ==
  [index EXCEPT !.segments = Append(@, NewSegment(x0, y0, x1, y1)),
                !.needsSort = TRUE]

\* segments.sort by maxX (the order of segments of equal maxX is kept)
RECURSIVE SortedFrom(_, _)
SortedFrom(segs, maxX) ==
  IF maxX > MaxCoord THEN <<>>
  ELSE SelectSeq(segs, LAMBDA seg : seg.maxX = maxX) \o SortedFrom(segs, maxX + 1)

sortSegments(index) ==
  IF index.needsSort
    THEN [index EXCEPT !.segments = SortedFrom(@, 0), !.needsSort = FALSE]
    ELSE index

\* absSquareDistanceToLineSegment(x, y, lineX0, lineY0, lineX1, lineY1)
absSquareDistanceToLineSegment(x, y, lineX0, lineY0, lineX1, lineY1) ==
  LET ldx == lineX1 - lineX0
      ldy == lineY1 - lineY0
      lengthSq == ldx * ldx + ldy * ldy
      dot == (x - lineX0) * ldx + (y - lineY0) * ldy
  IN  IF lengthSq = 0 \/ dot <= 0
        \* t = 0
        THEN Fraction((x - lineX0) * (x - lineX0) + (y - lineY0) * (y - lineY0))
      ELSE IF dot >= lengthSq
        \* t = 1
        THEN Fraction((x - lineX1) * (x - lineX1) + (y - lineY1) * (y - lineY1))
      ELSE
        \* t = dot / lengthSq
        LET dx == (x - lineX0) * lengthSq - dot * ldx
            dy == (y - lineY0) * lengthSq - dot * ldy
        IN  [n |-> dx * dx + dy * dy, d |-> lengthSq * lengthSq]

\* the loop of findNearestSignedDistance from the segment i down: the
\* closestDistSq after it
RECURSIVE ClosestFrom(_, _, _, _, _)
ClosestFrom(segs, i, x, y, closestDistSq) ==
  IF i = 0 THEN closestDistSq
  ELSE
    LET seg == segs[i]
    IN  IF SqrtAtMost(closestDistSq, x - seg.maxX) THEN closestDistSq   \* break
        ELSE IF /\ SqrtAbove(closestDistSq, seg.minX - x)
                /\ SqrtAbove(closestDistSq, y - seg.maxY)
                /\ SqrtAbove(closestDistSq, seg.minY - y)
          THEN LET distSq == absSquareDistanceToLineSegment(x, y, seg.x0, seg.y0,
                                                            seg.x1, seg.y1)
               IN  ClosestFrom(segs, i - 1, x, y,
                               IF LessThan(distSq, closestDistSq) THEN distSq
                                                                  ELSE closestDistSq)
          ELSE ClosestFrom(segs, i - 1, x, y, closestDistSq)

\* x < (seg.x1 - seg.x0) * (y - seg.y0) / (seg.y1 - seg.y0) + seg.x0, asked
\* only when seg.y1 # seg.y0
WestOfSegment(seg, x, y) ==
  LET dy == seg.y1 - seg.y0
      num == (seg.x1 - seg.x0) * (y - seg.y0)
  IN  IF dy > 0 THEN (x - seg.x0) * dy < num ELSE (x - seg.x0) * dy > num

\* the loop of isPointInPoly from the segment i down
RECURSIVE InsideFrom(_, _, _, _, _)
InsideFrom(segs, i, x, y, inside) ==
  IF i = 0 THEN inside
  ELSE
    LET seg == segs[i]
    IN  IF seg.maxX <= x THEN inside   \* break
        ELSE IF seg.minY < y /\ seg.maxY > y
          THEN LET intersects == /\ (seg.y0 > y) # (seg.y1 > y)
                                 /\ WestOfSegment(seg, x, y)
               IN  InsideFrom(segs, i - 1, x, y, IF intersects THEN ~ inside ELSE inside)
          ELSE InsideFrom(segs, i - 1, x, y, inside)

isPointInPoly(index, x, y) ==
  InsideFrom(sortSegments(index).segments, Len(index.segments), x, y, FALSE)

\* findNearestSignedDistance(x, y): the square of closestDist and its sign.
\* The function has two parameters: a third argument is not read.
findNearestSignedDistance(index, x, y) ==
  LET segs == sortSegments(index).segments
  IN  [distSq |-> ClosestFrom(segs, Len(segs), x, y, Infinity),
       negative |-> isPointInPoly(index, x, y)]

\* The path commands generateSDF reads: a closed contour of straight lines,
\* 'M' to the first point, 'L' to each of the others, 'Z'.
GridPoints == SegmentCoords \X SegmentCoords
Triangles ==
  { << a, b, c >> : a \in GridPoints, b \in GridPoints, c \in GridPoints }
\* the square, the square with a point in the middle of its left side, and
\* the diamond
Polygons ==
  { << << 0, 0 >>, << 2, 0 >>, << 2, 2 >>, << 0, 2 >> >>,
    << << 0, 0 >>, << 2, 0 >>, << 2, 2 >>, << 0, 2 >>, << 0, 1 >> >>,
    << << 1, 0 >>, << 2, 1 >>, << 1, 2 >>, << 0, 1 >> >> }
Contours == Triangles \cup Polygons

\* forEachPathCommand of generateSDF for the contour: 'L' adds a segment
\* unless it has no length, 'Z' adds one back to the first point unless the
\* path is there already
PathSegments(index, contour) ==
  LET Line(s, i) ==
        IF contour[i] # s.prev
          THEN [index |-> addLineSegment(s.index, s.prev[1], s.prev[2],
                                         contour[i][1], contour[i][2]),
                prev |-> contour[i]]
          ELSE s
      lines == ForEach(2, Len(contour), [index |-> index, prev |-> contour[1]], Line)
  IN  IF lines.prev # contour[1]
        THEN addLineSegment(lines.index, lines.prev[1], lines.prev[2],
                            contour[1][1], contour[1][2])
        ELSE lines.index

NoQuery == [x |-> 0, y |-> 0, maxRadius |-> 0]
NoDistance == [distSq |-> Fraction(0), negative |-> FALSE]

SDFInit ==
  /\ SysIdle /\ TexIdle /\ BidiIdle
  /\ layout = NoLayout /\ component = NoComponent /\ rpc = NoWorker
  /\ sdf = [pc |-> "index", segments |-> <<>>, needsSort |-> FALSE,
            query |-> NoQuery, result |-> NoDistance]

\* lineSegmentsIndex.addLineSegment(x0, y0, x1, y1)
AddLineSegment(x0, y0, x1, y1) ==
  /\ sdf.pc # "idle"
  /\ Len(sdf.segments) < MaxSegments
  /\ sdf' = [addLineSegment(sdf, x0, y0, x1, y1)
               EXCEPT !.pc = "index", !.query = NoQuery, !.result = NoDistance]
  /\ UNCHANGED << sysVars, texVars, bidiVars, layout, component, rpc >>

\* generateSDF fills a new index from the path commands of a glyph
AddPath(contour) ==
  /\ sdf.pc = "index"
  /\ sdf.segments = <<>>
  /\ sdf' = PathSegments(sdf, contour)
  /\ UNCHANGED << sysVars, texVars, bidiVars, layout, component, rpc >>

\* lineSegmentsIndex.findNearestSignedDistance(x, y, maxRadius)
Query(x, y, maxRadius) ==
  [sortSegments(sdf) EXCEPT
     !.pc = "queried",
     !.query = [x |-> x, y |-> y, maxRadius |-> maxRadius],
     !.result = findNearestSignedDistance(sdf, x, y)]

\* the first sample of an index
FindNearestSignedDistance(x, y, maxRadius) ==
  /\ sdf.pc = "index"
  /\ sdf' = Query(x, y, maxRadius)
  /\ UNCHANGED << sysVars, texVars, bidiVars, layout, component, rpc >>

\* the sampling loop of generateSDF goes on to the next sample: sdfY runs
\* inside sdfX
NextSample ==
  /\ sdf.pc = "queried"
  /\ \/ /\ sdf.query.y < MaxCoord + 1
        /\ sdf' = Query(sdf.query.x, sdf.query.y + 1, sdf.query.maxRadius)
     \/ /\ sdf.query.y = MaxCoord + 1
        /\ sdf.query.x < MaxCoord + 1
        /\ sdf' = Query(sdf.query.x + 1, 0 - 1, sdf.query.maxRadius)
  /\ UNCHANGED << sysVars, texVars, bidiVars, layout, component, rpc >>

SDFNext ==
  \/ \E x0 \in SegmentCoords, y0 \in SegmentCoords,
        x1 \in SegmentCoords, y1 \in SegmentCoords : AddLineSegment(x0, y0, x1, y1)
  \/ \E contour \in Contours : AddPath(contour)
  \/ \E x \in QueryCoords, y \in QueryCoords, maxRadius \in MaxRadii :
       FindNearestSignedDistance(x, y, maxRadius)
  \/ NextSample

SpecSDF == SDFInit /\ [][SDFNext]_vars

\* The segments an east-pointing ray from (x, y) crosses: those with one end
\* above the ray and the other on it or below it, met east of the point.
Crossed(segs, x, y) ==
  { i \in DOMAIN segs : /\ (segs[i].y0 > y) # (segs[i].y1 > y)
                        /\ WestOfSegment(segs[i], x, y) }

\* C22: the magnitude of the value findNearestSignedDistance(x, y, maxRadius)
\* returns is at most maxRadius, and the value is negative exactly when the
\* east-pointing ray from the point crosses an odd number of segments.
C22_DistanceWithinRadius ==
  sdf.pc = "queried" =>
    /\ SqrtAtMost(sdf.result.distSq, sdf.query.maxRadius)
    /\ sdf.result.negative
         = (Cardinality(Crossed(sdf.segments, sdf.query.x, sdf.query.y)) % 2 = 1)

====
